---- MODULE Spec2Model ----
(***************************************************************************)
(* Tactix API: the access-control behaviour of the workspace, project and  *)
(* task route handlers (app/api/routes) over the relational store declared *)
(* in app/models.  One action per route handler; every handler is one      *)
(* request, executed in one database transaction.  For every handler h,    *)
(* h_outcome is the response the handler gives in the current state (the   *)
(* HTTP status, by its class) and h_permitted is its permission test.      *)
(*   404 -> "NotFound", 403 -> "PermissionDenied", 400 of a task handler   *)
(*   -> "InvalidReference", 400 of a member handler -> "Conflict", an      *)
(*   exception no handler catches (500) -> "ServerError".                  *)
(* A request that is refused, and a read, leave the store as it is.        *)
(***************************************************************************)
EXTENDS Integers, FiniteSets, TLC

(* ------------------------------ bounds -------------------------------- *)

\* Number of rows of the users table (ids 1..NUsers).
NUsers == 3
\* Workspaces, projects and tasks ever inserted (primary keys are not reused).
MaxWorkspaces == 1
MaxProjects == 2
MaxTasks == 1

(* ------------------------------ users --------------------------------- *)

\* Python's None, the value of an Optional column or payload field left empty.
None == 0

\* Rows of the users table.  No handler modelled here inserts or deletes users.
Users == 1 .. NUsers

\* Ids a request may name as a user: NUsers+1 names no row.
UserIds == 1 .. (NUsers + 1)

\* The users whose is_superuser flag is set.
Superusers == {1}

is_superuser(u) == u \in Superusers

\* Ids a request may name as a workspace: MaxWorkspaces+1 never names a row.
WorkspaceIds == 1 .. (MaxWorkspaces + 1)
ProjectIds == 1 .. MaxProjects
TaskIds == 1 .. MaxTasks

\* class TaskStatus: the default and the final value of its four (the handlers
\* treat every value alike).
TaskStatus == {"todo", "done"}

\* Column(Enum(TaskStatus), default=TaskStatus.TODO)
TODO == "todo"

(* ------------------------------ state --------------------------------- *)

VARIABLES
    workspaces,         \* workspaces table: id -> [owner_id]
    workspace_members,  \* association table: <<workspace_id, user_id>> -> number of rows
    projects,           \* projects table: id -> [workspace_id]
    project_members,    \* association table: <<project_id, user_id>> -> number of rows
    tasks,              \* tasks table: id -> [status, project_id, assignee_id, created_by_id]
    next_workspace_id,  \* next value of the workspaces.id sequence
    next_project_id,    \* next value of the projects.id sequence
    next_task_id,       \* next value of the tasks.id sequence
    requests            \* the add-member requests in flight, by connection

vars == <<workspaces, workspace_members, projects, project_members, tasks,
          next_workspace_id, next_project_id, next_task_id, requests>>

\* The database connections that serve requests side by side.
Connections == {1, 2}

\* A connection with no add-member request in flight.
Idle == [pc |-> "idle"]

NoRequests == [c \in Connections |-> Idle]

\* The four handlers that insert into an association table.
AddMemberHandlers ==
    {"add_workspace_member", "add_project_member",
     "WorkspaceService.add_member", "ProjectService.add_member"}

\* The two service functions that commit a row and then call add_member for it.
CreateHandlers == {"WorkspaceService.create_workspace", "ProjectService.create_project"}

\* A request is past its tests with its insert pending, or past the commit of
\* its new row with the add_member call for the creator pending, or it has
\* answered.
RequestStates ==
    {Idle}
        \cup [pc : {"insert"}, handler : AddMemberHandlers,
              row : (WorkspaceIds \cup ProjectIds) \X Users]
        \cup [pc : {"add_member"}, handler : CreateHandlers,
              row : (WorkspaceIds \cup ProjectIds) \X Users]
        \cup [pc : {"done"},
              outcome : {"OK", "NotFound", "PermissionDenied", "Conflict", "ServerError",
                         "True", "False", "IntegrityError", "Row", "None"}]

\* The empty table.
EmptyTable == [x \in {} |-> None]

\* Row r inserted under primary key id.
Insert(table, id, r) == [k \in DOMAIN table \cup {id} |-> IF k = id THEN r ELSE table[k]]

\* The rows whose primary key is in gone deleted.
Delete(table, gone) == [k \in DOMAIN table \ gone |-> table[k]]

\* One more row with the values row in an association table: "INSERT INTO
\* workspace_members (workspace_id, user_id) VALUES (...)".
AppendRow(table, row) ==
    [k \in DOMAIN table \cup {row} |->
        IF k \in DOMAIN table THEN (IF k = row THEN table[k] + 1 ELSE table[k]) ELSE 1]

Init ==
    /\ workspaces = EmptyTable
    /\ workspace_members = EmptyTable
    /\ projects = EmptyTable
    /\ project_members = EmptyTable
    /\ tasks = EmptyTable
    /\ next_workspace_id = 1
    /\ next_project_id = 1
    /\ next_task_id = 1
    /\ requests = NoRequests

\* The columns of the three tables and of the two association tables.
TypeOK ==
    /\ workspaces \in [DOMAIN workspaces -> [owner_id : Users]]
    /\ DOMAIN workspaces \subseteq 1 .. (next_workspace_id - 1)
    /\ DOMAIN workspace_members \subseteq (DOMAIN workspaces) \X Users
    /\ projects \in [DOMAIN projects -> [workspace_id : DOMAIN workspaces]]
    /\ DOMAIN projects \subseteq 1 .. (next_project_id - 1)
    /\ DOMAIN project_members \subseteq (DOMAIN projects) \X Users
    /\ tasks \in [DOMAIN tasks -> [status : TaskStatus,
                                   project_id : DOMAIN projects,
                                   assignee_id : {None} \cup Users,
                                   created_by_id : Users]]
    /\ DOMAIN tasks \subseteq 1 .. (next_task_id - 1)
    /\ requests \in [Connections -> RequestStates]

(* ------------------- foreign keys and NOT NULL columns ----------------- *)

\* projects.workspace_id declared without its foreign key: nullable=False alone.
project_workspace_id_not_null(wid) == wid # None

\* projects.workspace_id: ForeignKey("workspaces.id"), nullable=False.
project_workspace_id_ok(wid) == wid # None /\ wid \in DOMAIN workspaces

\* tasks.project_id: ForeignKey("projects.id"), nullable=False.
task_project_id_ok(pid) == pid # None /\ pid \in DOMAIN projects

\* tasks.assignee_id: ForeignKey("users.id"), nullable=True.
task_assignee_id_ok(uid) == uid = None \/ uid \in Users

\* An association table without its primary key: every insert is accepted.
primary_key_off(table, row) == TRUE

\* workspace_members and project_members: both columns primary_key=True, so an
\* insert of a row that is already there fails (IntegrityError at commit).
primary_key_ok(table, row) == row \notin DOMAIN table

(* ------------------------- workspace handlers -------------------------- *)

\* "current_user in workspace.members"
in_workspace_members(u, wid) == <<wid, u>> \in DOMAIN workspace_members

\* "current_user in project.members"
in_project_members(u, pid) == <<pid, u>> \in DOMAIN project_members

create_workspace(u) ==
    /\ next_workspace_id <= MaxWorkspaces
    /\ workspaces' = Insert(workspaces, next_workspace_id, [owner_id |-> u])
    /\ next_workspace_id' = next_workspace_id + 1
    /\ UNCHANGED <<requests, workspace_members, projects, project_members, tasks,
                   next_project_id, next_task_id>>

\* read_workspace that forgets the owner.
read_workspace_permitted_members_only(u, wid) ==
    is_superuser(u) \/ in_workspace_members(u, wid)

read_workspace_permitted(u, wid) ==
    \/ is_superuser(u)
    \/ workspaces[wid].owner_id = u
    \/ in_workspace_members(u, wid)

read_workspace_outcome(u, wid) ==
    IF wid \notin DOMAIN workspaces THEN "NotFound"
    ELSE IF ~read_workspace_permitted(u, wid) THEN "PermissionDenied"
    ELSE "OK"

read_workspace(u, wid) ==
    UNCHANGED vars

update_workspace_permitted(u, wid) ==
    is_superuser(u) \/ workspaces[wid].owner_id = u

update_workspace_outcome(u, wid) ==
    IF wid \notin DOMAIN workspaces THEN "NotFound"
    ELSE IF ~update_workspace_permitted(u, wid) THEN "PermissionDenied"
    ELSE "OK"

\* WorkspaceUpdate carries name and description only, which the model does not
\* keep: a granted update leaves every modelled column as it was.
update_workspace(u, wid) ==
    /\ update_workspace_outcome(u, wid) \in {"NotFound", "PermissionDenied", "OK"}
    /\ UNCHANGED vars

\* delete_workspace that asks the owner to be in the member set too.
delete_workspace_permitted_owner_in_members(u, wid) ==
    is_superuser(u) \/ (workspaces[wid].owner_id = u /\ in_workspace_members(u, wid))

delete_workspace_permitted(u, wid) ==
    is_superuser(u) \/ workspaces[wid].owner_id = u

delete_workspace_outcome(u, wid) ==
    IF wid \notin DOMAIN workspaces THEN "NotFound"
    ELSE IF ~delete_workspace_permitted(u, wid) THEN "PermissionDenied"
    ELSE "OK"

\* Workspace.projects, cascade="all, delete-orphan": the projects deleted with wid.
workspace_projects(wid) == {p \in DOMAIN projects : projects[p].workspace_id = wid}

\* Project.tasks declared without its cascade: no task is deleted with a project.
project_tasks_no_cascade(ps) == {}

\* Project.tasks, cascade="all, delete-orphan": the tasks deleted with the projects ps.
project_tasks(ps) == {t \in DOMAIN tasks : tasks[t].project_id \in ps}

delete_workspace(u, wid) ==
    LET r == delete_workspace_outcome(u, wid)
        ps == workspace_projects(wid)
        ts == project_tasks(ps)
    IN  IF r = "OK"
           THEN /\ workspaces' = Delete(workspaces, {wid})
                /\ workspace_members' = Delete(workspace_members,
                                            {e \in DOMAIN workspace_members : e[1] = wid})
                /\ projects' = Delete(projects, ps)
                /\ project_members' = Delete(project_members,
                                          {e \in DOMAIN project_members : e[1] \in ps})
                /\ tasks' = Delete(tasks, ts)
                /\ UNCHANGED <<requests, next_workspace_id, next_project_id, next_task_id>>
           ELSE UNCHANGED vars

add_workspace_member_permitted(u, wid) ==
    is_superuser(u) \/ workspaces[wid].owner_id = u

\* The tests of add_workspace_member before "workspace.members.append(user)".
add_workspace_member_checks(u, wid, uid) ==
    IF wid \notin DOMAIN workspaces THEN "NotFound"
    ELSE IF ~add_workspace_member_permitted(u, wid) THEN "PermissionDenied"
    ELSE IF uid \notin Users THEN "NotFound"
    ELSE IF in_workspace_members(uid, wid) THEN "Conflict"
    ELSE "OK"

\* add_workspace_member with neither the test for a present member nor the
\* primary key of the table behind it.
add_workspace_member_outcome_unchecked(u, wid, uid) ==
    IF wid \notin DOMAIN workspaces THEN "NotFound"
    ELSE IF ~add_workspace_member_permitted(u, wid) THEN "PermissionDenied"
    ELSE IF uid \notin Users THEN "NotFound"
    ELSE "OK"

\* "workspace.members.append(user); db.commit()" inserts the row.
add_workspace_member_outcome(u, wid, uid) ==
    IF add_workspace_member_checks(u, wid, uid) # "OK"
       THEN add_workspace_member_checks(u, wid, uid)
    ELSE IF ~primary_key_ok(workspace_members, <<wid, uid>>) THEN "ServerError"
    ELSE "OK"

add_workspace_member(u, wid, uid) ==
    LET r == add_workspace_member_outcome(u, wid, uid)
    IN  IF r = "OK"
           THEN /\ workspace_members' = AppendRow(workspace_members, <<wid, uid>>)
                /\ UNCHANGED <<requests, workspaces, projects, project_members, tasks,
                               next_workspace_id, next_project_id, next_task_id>>
           ELSE UNCHANGED vars

remove_workspace_member_permitted(u, wid) ==
    is_superuser(u) \/ workspaces[wid].owner_id = u

\* remove_workspace_member without the test "user not in workspace.members".
remove_workspace_member_outcome_lenient(u, wid, uid) ==
    IF wid \notin DOMAIN workspaces THEN "NotFound"
    ELSE IF ~remove_workspace_member_permitted(u, wid) THEN "PermissionDenied"
    ELSE IF uid \notin Users THEN "NotFound"
    ELSE "OK"

remove_workspace_member_outcome(u, wid, uid) ==
    IF wid \notin DOMAIN workspaces THEN "NotFound"
    ELSE IF ~remove_workspace_member_permitted(u, wid) THEN "PermissionDenied"
    ELSE IF uid \notin Users THEN "NotFound"
    ELSE IF ~in_workspace_members(uid, wid) THEN "Conflict"
    ELSE "OK"

\* remove_workspace_member that also takes the user out of the projects of the
\* workspace.
remove_workspace_member_cascading(u, wid, uid) ==
    LET r == remove_workspace_member_outcome(u, wid, uid)
    IN  IF r = "OK"
           THEN /\ workspace_members' = Delete(workspace_members, {<<wid, uid>>})
                /\ project_members' = Delete(project_members,
                                          {<<pid, uid>> : pid \in workspace_projects(wid)})
                /\ UNCHANGED <<requests, workspaces, projects, tasks,
                               next_workspace_id, next_project_id, next_task_id>>
           ELSE UNCHANGED vars

remove_workspace_member(u, wid, uid) ==
    LET r == remove_workspace_member_outcome(u, wid, uid)
    IN  IF r = "OK"
           THEN /\ workspace_members' = Delete(workspace_members, {<<wid, uid>>})
                /\ UNCHANGED <<requests, workspaces, projects, project_members, tasks,
                               next_workspace_id, next_project_id, next_task_id>>
           ELSE UNCHANGED vars

(* -------------------------- project handlers -------------------------- *)

\* ProjectCreate: workspace_id is required.
ProjectCreatePayloads == [workspace_id : WorkspaceIds]

\* ProjectUpdate(...).dict(exclude_unset=True): the fields the request sets.
\* workspace_id may be left unset, set to None, or name any workspace id.
ProjectUpdatePayloads ==
    {EmptyTable} \cup [workspace_id : {None} \cup WorkspaceIds]

\* create_project with the test of update_workspace, which keeps the members out.
create_project_permitted_as_manage(u, wid) ==
    is_superuser(u) \/ workspaces[wid].owner_id = u

create_project_permitted(u, wid) ==
    \/ is_superuser(u)
    \/ workspaces[wid].owner_id = u
    \/ in_workspace_members(u, wid)

create_project_outcome(u, p) ==
    IF p.workspace_id \notin DOMAIN workspaces THEN "NotFound"
    ELSE IF ~create_project_permitted(u, p.workspace_id) THEN "PermissionDenied"
    ELSE "OK"

create_project(u, p) ==
    LET r == create_project_outcome(u, p)
    IN  /\ r = "OK" => next_project_id <= MaxProjects
        /\ IF r = "OK"
           THEN /\ projects' = Insert(projects, next_project_id,
                                      [workspace_id |-> p.workspace_id])
                /\ project_members' = AppendRow(project_members, <<next_project_id, u>>)
                /\ next_project_id' = next_project_id + 1
                /\ UNCHANGED <<requests, workspaces, workspace_members, tasks,
                               next_workspace_id, next_task_id>>
           ELSE UNCHANGED vars

\* "workspace = db.query(Workspace).filter(Workspace.id == project.workspace_id).first()":
\* the row, which the foreign key of projects.workspace_id guarantees to exist.
has_workspace(pid) == projects[pid].workspace_id \in DOMAIN workspaces

workspace_of(pid) == workspaces[projects[pid].workspace_id]

read_project_permitted(u, pid) ==
    \/ is_superuser(u)
    \/ workspace_of(pid).owner_id = u
    \/ in_workspace_members(u, projects[pid].workspace_id)
    \/ in_project_members(u, pid)

read_project_outcome(u, pid) ==
    IF pid \notin DOMAIN projects THEN "NotFound"
    ELSE IF ~has_workspace(pid) THEN "ServerError"
    ELSE IF ~read_project_permitted(u, pid) THEN "PermissionDenied"
    ELSE "OK"

read_project(u, pid) ==
    UNCHANGED vars

\* update_project with the test of read_project, which lets the members through.
update_project_permitted_as_read(u, pid) ==
    \/ is_superuser(u)
    \/ workspace_of(pid).owner_id = u
    \/ in_workspace_members(u, projects[pid].workspace_id)
    \/ in_project_members(u, pid)

update_project_permitted(u, pid) ==
    is_superuser(u) \/ workspace_of(pid).owner_id = u

\* "for field, value in update_data.items(): setattr(project, field, value)"
update_project_row(pid, p) ==
    [f \in DOMAIN projects[pid] |-> IF f \in DOMAIN p THEN p[f] ELSE projects[pid][f]]

\* db.commit() raises IntegrityError when the updated row breaks a constraint.
update_project_outcome(u, pid, p) ==
    IF pid \notin DOMAIN projects THEN "NotFound"
    ELSE IF ~has_workspace(pid) THEN "ServerError"
    ELSE IF ~update_project_permitted(u, pid) THEN "PermissionDenied"
    ELSE IF ~project_workspace_id_ok(update_project_row(pid, p).workspace_id)
         THEN "ServerError"
    ELSE "OK"

update_project(u, pid, p) ==
    LET r == update_project_outcome(u, pid, p)
    IN  IF r = "OK"
           THEN /\ projects' = [projects EXCEPT ![pid] = update_project_row(pid, p)]
                /\ UNCHANGED <<requests, workspaces, workspace_members, project_members, tasks,
                               next_workspace_id, next_project_id, next_task_id>>
           ELSE UNCHANGED vars

\* delete_project that forgets the superuser.
delete_project_permitted_owner_only(u, pid) ==
    workspace_of(pid).owner_id = u

delete_project_permitted(u, pid) ==
    is_superuser(u) \/ workspace_of(pid).owner_id = u

\* delete_project with the owner test placed before the existence test.
delete_project_outcome_permission_first(u, pid) ==
    IF /\ ~is_superuser(u)
       /\ \/ pid \notin DOMAIN projects
          \/ ~has_workspace(pid)
          \/ workspace_of(pid).owner_id # u
       THEN "PermissionDenied"
    ELSE IF pid \notin DOMAIN projects THEN "NotFound"
    ELSE IF ~has_workspace(pid) THEN "ServerError"
    ELSE "OK"

delete_project_outcome(u, pid) ==
    IF pid \notin DOMAIN projects THEN "NotFound"
    ELSE IF ~has_workspace(pid) THEN "ServerError"
    ELSE IF ~delete_project_permitted(u, pid) THEN "PermissionDenied"
    ELSE "OK"

delete_project(u, pid) ==
    LET r == delete_project_outcome(u, pid)
    IN  IF r = "OK"
           THEN /\ projects' = Delete(projects, {pid})
                /\ project_members' = Delete(project_members,
                                          {e \in DOMAIN project_members : e[1] = pid})
                /\ tasks' = Delete(tasks, project_tasks({pid}))
                /\ UNCHANGED <<requests, workspaces, workspace_members,
                               next_workspace_id, next_project_id, next_task_id>>
           ELSE UNCHANGED vars

add_project_member_permitted(u, pid) ==
    is_superuser(u) \/ workspace_of(pid).owner_id = u

\* The tests of add_project_member before "project.members.append(user)".
add_project_member_checks(u, pid, uid) ==
    IF pid \notin DOMAIN projects THEN "NotFound"
    ELSE IF ~has_workspace(pid) THEN "ServerError"
    ELSE IF ~add_project_member_permitted(u, pid) THEN "PermissionDenied"
    ELSE IF uid \notin Users THEN "NotFound"
    ELSE IF in_project_members(uid, pid) THEN "Conflict"
    ELSE "OK"

\* "project.members.append(user); db.commit()" inserts the row.
add_project_member_outcome(u, pid, uid) ==
    IF add_project_member_checks(u, pid, uid) # "OK"
       THEN add_project_member_checks(u, pid, uid)
    ELSE IF ~primary_key_ok(project_members, <<pid, uid>>) THEN "ServerError"
    ELSE "OK"

add_project_member(u, pid, uid) ==
    LET r == add_project_member_outcome(u, pid, uid)
    IN  IF r = "OK"
           THEN /\ project_members' = AppendRow(project_members, <<pid, uid>>)
                /\ UNCHANGED <<requests, workspaces, workspace_members, projects, tasks,
                               next_workspace_id, next_project_id, next_task_id>>
           ELSE UNCHANGED vars

remove_project_member_permitted(u, pid) ==
    is_superuser(u) \/ workspace_of(pid).owner_id = u

remove_project_member_outcome(u, pid, uid) ==
    IF pid \notin DOMAIN projects THEN "NotFound"
    ELSE IF ~has_workspace(pid) THEN "ServerError"
    ELSE IF ~remove_project_member_permitted(u, pid) THEN "PermissionDenied"
    ELSE IF uid \notin Users THEN "NotFound"
    ELSE IF ~in_project_members(uid, pid) THEN "Conflict"
    ELSE "OK"

remove_project_member(u, pid, uid) ==
    LET r == remove_project_member_outcome(u, pid, uid)
    IN  IF r = "OK"
           THEN /\ project_members' = Delete(project_members, {<<pid, uid>>})
                /\ UNCHANGED <<requests, workspaces, workspace_members, projects, tasks,
                               next_workspace_id, next_project_id, next_task_id>>
           ELSE UNCHANGED vars

(* ---------------------------- task handlers ---------------------------- *)

\* TaskCreate(...).dict(): project_id is required, assignee_id defaults to None.
\* A payload without the status field is one whose status is None; one with it
\* asks for a status other than the default.
TaskCreatePayloads ==
    [project_id : ProjectIds, assignee_id : {None} \cup UserIds]
        \cup [project_id : ProjectIds, assignee_id : {None} \cup UserIds,
              status : TaskStatus \ {TODO}]

\* "status = Column(Enum(TaskStatus), default=TaskStatus.TODO, ...)": the value
\* stored for a task created with the payload p.
created_status(p) == IF "status" \in DOMAIN p THEN p.status ELSE TODO

\* TaskUpdate(...).dict(exclude_unset=True): the fields the request sets: none,
\* the status alone, or any of project_id and assignee_id.
TaskUpdatePayloads ==
    {EmptyTable}
        \cup [project_id : {None} \cup ProjectIds]
        \cup [assignee_id : {None} \cup UserIds]
        \cup [project_id : {None} \cup ProjectIds, assignee_id : {None} \cup UserIds]
        \cup [status : TaskStatus]

\* "task_in.assignee_id": None when the request leaves the field unset.
payload_assignee_id(p) == IF "assignee_id" \in DOMAIN p THEN p.assignee_id ELSE None

\* "assignee not in project.members and assignee != workspace.owner and
\*  assignee not in workspace.members" is the rejection; this is its negation.
\* An assignee test that also lets every superuser through.
assignee_accepted_or_superuser(uid, pid) ==
    \/ is_superuser(uid)
    \/ in_project_members(uid, pid)
    \/ uid = workspace_of(pid).owner_id
    \/ in_workspace_members(uid, projects[pid].workspace_id)

assignee_accepted(uid, pid) ==
    \/ in_project_members(uid, pid)
    \/ uid = workspace_of(pid).owner_id
    \/ in_workspace_members(uid, projects[pid].workspace_id)

create_task_permitted(u, pid) ==
    \/ is_superuser(u)
    \/ workspace_of(pid).owner_id = u
    \/ in_workspace_members(u, projects[pid].workspace_id)
    \/ in_project_members(u, pid)

create_task_outcome(u, p) ==
    IF p.project_id \notin DOMAIN projects THEN "NotFound"
    ELSE IF ~has_workspace(p.project_id) THEN "ServerError"
    ELSE IF ~create_task_permitted(u, p.project_id) THEN "PermissionDenied"
    ELSE IF p.assignee_id # None /\ p.assignee_id \notin Users THEN "NotFound"
    ELSE IF p.assignee_id # None /\ ~assignee_accepted(p.assignee_id, p.project_id)
         THEN "InvalidReference"
    ELSE "OK"

\* create_task that stores the task before it tests the assignee: a request
\* refused for its assignee leaves the task behind, with no assignee.
create_task_assignee_tested_last(u, p) ==
    LET r == create_task_outcome(u, p)
        written == r \in {"OK", "InvalidReference"}
    IN  /\ written => next_task_id <= MaxTasks
        /\ IF written
           THEN /\ tasks' = Insert(tasks, next_task_id,
                                   [status |-> created_status(p),
                                    project_id |-> p.project_id,
                                    assignee_id |-> IF r = "OK" THEN p.assignee_id ELSE None,
                                    created_by_id |-> u])
                /\ next_task_id' = next_task_id + 1
                /\ UNCHANGED <<requests, workspaces, workspace_members, projects, project_members,
                               next_workspace_id, next_project_id>>
           ELSE UNCHANGED vars

create_task(u, p) ==
    LET r == create_task_outcome(u, p)
    IN  /\ r = "OK" => next_task_id <= MaxTasks
        /\ IF r = "OK"
           THEN /\ tasks' = Insert(tasks, next_task_id,
                                   [status |-> created_status(p),
                                    project_id |-> p.project_id,
                                    assignee_id |-> p.assignee_id,
                                    created_by_id |-> u])
                /\ next_task_id' = next_task_id + 1
                /\ UNCHANGED <<requests, workspaces, workspace_members, projects, project_members,
                               next_workspace_id, next_project_id>>
           ELSE UNCHANGED vars

\* "project = db.query(Project).filter(Project.id == task.project_id).first()" and the
\* workspace of that project: the rows, which the foreign keys guarantee to exist.
has_project(tid) ==
    /\ tasks[tid].project_id \in DOMAIN projects
    /\ has_workspace(tasks[tid].project_id)

\* read_task without the clause for the assignee.
read_task_permitted_no_assignee(u, tid) ==
    \/ is_superuser(u)
    \/ workspace_of(tasks[tid].project_id).owner_id = u
    \/ in_workspace_members(u, projects[tasks[tid].project_id].workspace_id)
    \/ in_project_members(u, tasks[tid].project_id)
    \/ tasks[tid].created_by_id = u

read_task_permitted(u, tid) ==
    \/ is_superuser(u)
    \/ workspace_of(tasks[tid].project_id).owner_id = u
    \/ in_workspace_members(u, projects[tasks[tid].project_id].workspace_id)
    \/ in_project_members(u, tasks[tid].project_id)
    \/ tasks[tid].assignee_id = u
    \/ tasks[tid].created_by_id = u

read_task_outcome(u, tid) ==
    IF tid \notin DOMAIN tasks THEN "NotFound"
    ELSE IF ~has_project(tid) THEN "ServerError"
    ELSE IF ~read_task_permitted(u, tid) THEN "PermissionDenied"
    ELSE "OK"

read_task(u, tid) ==
    UNCHANGED vars

update_task_permitted(u, tid) ==
    \/ is_superuser(u)
    \/ workspace_of(tasks[tid].project_id).owner_id = u
    \/ tasks[tid].created_by_id = u
    \/ tasks[tid].assignee_id = u

\* "if task_in.assignee_id and task_in.assignee_id != task.assignee_id"
update_task_checks_assignee(tid, p) ==
    payload_assignee_id(p) # None /\ payload_assignee_id(p) # tasks[tid].assignee_id

\* A full replace: an optional column the payload leaves out is set to None.
update_task_row_full_replace(tid, p) ==
    [f \in DOMAIN tasks[tid] |->
        IF f \in DOMAIN p THEN p[f]
        ELSE IF f = "assignee_id" THEN None
        ELSE tasks[tid][f]]

\* "for field, value in update_data.items(): setattr(task, field, value)"
update_task_row(tid, p) ==
    [f \in DOMAIN tasks[tid] |-> IF f \in DOMAIN p THEN p[f] ELSE tasks[tid][f]]

\* The assignee is checked against the project the task is in before the update.
\* db.commit() raises IntegrityError when the updated row breaks a constraint.
update_task_outcome(u, tid, p) ==
    IF tid \notin DOMAIN tasks THEN "NotFound"
    ELSE IF ~has_project(tid) THEN "ServerError"
    ELSE IF ~update_task_permitted(u, tid) THEN "PermissionDenied"
    ELSE IF update_task_checks_assignee(tid, p) /\ payload_assignee_id(p) \notin Users
         THEN "NotFound"
    ELSE IF /\ update_task_checks_assignee(tid, p)
            /\ ~assignee_accepted(payload_assignee_id(p), tasks[tid].project_id)
         THEN "InvalidReference"
    ELSE IF \/ ~task_project_id_ok(update_task_row(tid, p).project_id)
            \/ ~task_assignee_id_ok(update_task_row(tid, p).assignee_id)
         THEN "ServerError"
    ELSE "OK"

update_task(u, tid, p) ==
    LET r == update_task_outcome(u, tid, p)
    IN  IF r = "OK"
           THEN /\ tasks' = [tasks EXCEPT ![tid] = update_task_row(tid, p)]
                /\ UNCHANGED <<requests, workspaces, workspace_members, projects, project_members,
                               next_workspace_id, next_project_id, next_task_id>>
           ELSE UNCHANGED vars

\* delete_task with the test of update_task, which lets the assignee through.
delete_task_permitted_as_update(u, tid) ==
    \/ is_superuser(u)
    \/ workspace_of(tasks[tid].project_id).owner_id = u
    \/ tasks[tid].created_by_id = u
    \/ tasks[tid].assignee_id = u

delete_task_permitted(u, tid) ==
    \/ is_superuser(u)
    \/ workspace_of(tasks[tid].project_id).owner_id = u
    \/ tasks[tid].created_by_id = u

delete_task_outcome(u, tid) ==
    IF tid \notin DOMAIN tasks THEN "NotFound"
    ELSE IF ~has_project(tid) THEN "ServerError"
    ELSE IF ~delete_task_permitted(u, tid) THEN "PermissionDenied"
    ELSE "OK"

delete_task(u, tid) ==
    LET r == delete_task_outcome(u, tid)
    IN  IF r = "OK"
           THEN /\ tasks' = Delete(tasks, {tid})
                /\ UNCHANGED <<requests, workspaces, workspace_members, projects, project_members,
                               next_workspace_id, next_project_id, next_task_id>>
           ELSE UNCHANGED vars

(* ------------------------- the route list handlers --------------------- *)

\* read_workspaces: the rows of the query before "offset(skip).limit(limit)".
read_workspaces_rows(u) ==
    IF is_superuser(u) THEN DOMAIN workspaces
    ELSE {wid \in DOMAIN workspaces :
              workspaces[wid].owner_id = u \/ in_workspace_members(u, wid)}

read_workspaces(u) ==
    UNCHANGED vars

\* "if workspace_id: query = query.filter(Project.workspace_id == workspace_id)"
read_projects_filter(pid, workspace_id) ==
    workspace_id # None => projects[pid].workspace_id = workspace_id

\* "db.query(Project).join(Workspace)": the projects whose workspace row exists.
read_projects_rows(u, workspace_id) ==
    IF is_superuser(u)
       THEN {pid \in DOMAIN projects : read_projects_filter(pid, workspace_id)}
       ELSE {pid \in DOMAIN projects :
                 /\ has_workspace(pid)
                 /\ \/ in_project_members(u, pid)
                    \/ workspace_of(pid).owner_id = u
                    \/ in_workspace_members(u, projects[pid].workspace_id)
                 /\ read_projects_filter(pid, workspace_id)}

read_projects(u, workspace_id) ==
    UNCHANGED vars

\* The query parameters of read_tasks; project_id or assignee_id left out is
\* None, status left out is no field.  The status is given alone or not at all.
TaskFilters ==
    [project_id : {None} \cup ProjectIds, assignee_id : {None} \cup Users]
        \cup [project_id : {None}, assignee_id : {None}, status : TaskStatus]

\* "if project_id: ...", "if status: ...", "if assignee_id: ..."
read_tasks_filter(tid, q) ==
    /\ q.project_id # None => tasks[tid].project_id = q.project_id
    /\ "status" \in DOMAIN q => tasks[tid].status = q.status
    /\ q.assignee_id # None => tasks[tid].assignee_id = q.assignee_id

\* read_tasks that leaves the creator out of the access filter.
read_tasks_access_no_creator(u, tid) ==
    /\ has_project(tid)
    /\ \/ tasks[tid].assignee_id = u
       \/ in_project_members(u, tasks[tid].project_id)
       \/ workspace_of(tasks[tid].project_id).owner_id = u
       \/ in_workspace_members(u, projects[tasks[tid].project_id].workspace_id)

\* "query.join(Project).join(Workspace).filter(...)" for a user who is not a superuser.
read_tasks_access(u, tid) ==
    /\ has_project(tid)
    /\ \/ tasks[tid].assignee_id = u
       \/ tasks[tid].created_by_id = u
       \/ in_project_members(u, tasks[tid].project_id)
       \/ workspace_of(tasks[tid].project_id).owner_id = u
       \/ in_workspace_members(u, projects[tasks[tid].project_id].workspace_id)

read_tasks_rows(u, q) ==
    {tid \in DOMAIN tasks :
         /\ read_tasks_filter(tid, q)
         /\ is_superuser(u) \/ read_tasks_access(u, tid)}

read_tasks(u, q) ==
    UNCHANGED vars

(* --------------------------- WorkspaceService -------------------------- *)

\* The service functions take the ids of the acting user as plain arguments and
\* answer with a value: "True" or "False" for a bool, "Row" for the row, "None"
\* for None, and the name of the exception for a call that raises.

\* workspaces.owner_id: ForeignKey("users.id"), nullable=False.
workspace_owner_id_ok(uid) == uid # None /\ uid \in Users

WorkspaceService_is_member(wid, uid) == in_workspace_members(uid, wid)

\* "return workspace and workspace.owner_id == user_id"
WorkspaceService_is_owner(wid, uid) ==
    wid \in DOMAIN workspaces /\ workspaces[wid].owner_id = uid

WorkspaceService_has_access(wid, uid) ==
    WorkspaceService_is_owner(wid, uid) \/ WorkspaceService_is_member(wid, uid)

\* "db.query(Workspace).join(workspace_members, Workspace.id ==
\* workspace_members.c.workspace_id)": one row for every workspace and every
\* membership row of that workspace.
WorkspaceService_joined_rows ==
    {e \in DOMAIN workspace_members : e[1] \in DOMAIN workspaces}

\* get_workspaces_by_user: the filter on the joined rows and ".distinct()", before
\* "offset(skip).limit(limit)".
WorkspaceService_get_workspaces_by_user_rows(user_id) ==
    {e[1] : e \in {j \in WorkspaceService_joined_rows :
                       workspaces[j[1]].owner_id = user_id \/ j[2] = user_id}}

WorkspaceService_get_workspaces_by_user(user_id) ==
    UNCHANGED vars

\* The tests of WorkspaceService.add_member before its insert; "Insert" when the
\* call goes on to "db.execute(workspace_members.insert()...)".
WorkspaceService_add_member_checks(wid, uid) ==
    IF wid \notin DOMAIN workspaces THEN "False"
    ELSE IF uid \notin Users THEN "False"
    ELSE IF in_workspace_members(uid, wid) THEN "True"
    ELSE "Insert"

WorkspaceService_add_member_result(wid, uid) ==
    IF WorkspaceService_add_member_checks(wid, uid) # "Insert"
       THEN WorkspaceService_add_member_checks(wid, uid)
    ELSE IF ~primary_key_ok(workspace_members, <<wid, uid>>) THEN "IntegrityError"
    ELSE "True"

WorkspaceService_add_member(wid, uid) ==
    IF /\ WorkspaceService_add_member_checks(wid, uid) = "Insert"
       /\ WorkspaceService_add_member_result(wid, uid) = "True"
       THEN /\ workspace_members' = AppendRow(workspace_members, <<wid, uid>>)
            /\ UNCHANGED <<requests, workspaces, projects, project_members, tasks,
                           next_workspace_id, next_project_id, next_task_id>>
       ELSE UNCHANGED vars

\* The first commit fails when owner_id names no user.
WorkspaceService_create_workspace_result(owner_id) ==
    IF ~workspace_owner_id_ok(owner_id) THEN "IntegrityError" ELSE "Row"

\* "WorkspaceService.add_member(db, db_workspace.id, owner_id)" on the new row:
\* the workspace is there, the user is there, and no row of the new id is.
WorkspaceService_owner_rows(wid, owner_id) ==
    AppendRow(workspace_members, <<wid, owner_id>>)

WorkspaceService_create_workspace(owner_id) ==
    LET r == WorkspaceService_create_workspace_result(owner_id)
    IN  /\ r = "Row" => next_workspace_id <= MaxWorkspaces
        /\ IF r = "Row"
           THEN /\ workspaces' = Insert(workspaces, next_workspace_id,
                                        [owner_id |-> owner_id])
                /\ workspace_members' =
                       WorkspaceService_owner_rows(next_workspace_id, owner_id)
                /\ next_workspace_id' = next_workspace_id + 1
                /\ UNCHANGED <<requests, projects, project_members, tasks,
                               next_project_id, next_task_id>>
           ELSE UNCHANGED vars

WorkspaceService_update_workspace_result(wid) ==
    IF wid \notin DOMAIN workspaces THEN "None" ELSE "Row"

\* WorkspaceUpdate carries name and description only.
WorkspaceService_update_workspace(wid) ==
    /\ WorkspaceService_update_workspace_result(wid) \in {"None", "Row"}
    /\ UNCHANGED vars

WorkspaceService_delete_workspace_result(wid) ==
    IF wid \notin DOMAIN workspaces THEN "False" ELSE "True"

WorkspaceService_delete_workspace(wid) ==
    LET r == WorkspaceService_delete_workspace_result(wid)
        ps == workspace_projects(wid)
        ts == project_tasks(ps)
    IN  IF r = "True"
           THEN /\ workspaces' = Delete(workspaces, {wid})
                /\ workspace_members' = Delete(workspace_members,
                                            {e \in DOMAIN workspace_members : e[1] = wid})
                /\ projects' = Delete(projects, ps)
                /\ project_members' = Delete(project_members,
                                          {e \in DOMAIN project_members : e[1] \in ps})
                /\ tasks' = Delete(tasks, ts)
                /\ UNCHANGED <<requests, next_workspace_id, next_project_id, next_task_id>>
           ELSE UNCHANGED vars

\* "return result.rowcount > 0"
WorkspaceService_remove_member_result(wid, uid) ==
    IF in_workspace_members(uid, wid) THEN "True" ELSE "False"

WorkspaceService_remove_member(wid, uid) ==
    /\ workspace_members' = Delete(workspace_members, {<<wid, uid>>})
    /\ UNCHANGED <<requests, workspaces, projects, project_members, tasks,
                   next_workspace_id, next_project_id, next_task_id>>

(* ---------------------------- ProjectService --------------------------- *)

ProjectService_is_member(pid, uid) == in_project_members(uid, pid)

\* ProjectService.has_access without "or WorkspaceService.has_access(...)".
ProjectService_has_access_members_only(pid, uid) ==
    /\ pid \in DOMAIN projects
    /\ ProjectService_is_member(pid, uid)

ProjectService_has_access(pid, uid) ==
    /\ pid \in DOMAIN projects
    /\ \/ ProjectService_is_member(pid, uid)
       \/ WorkspaceService_has_access(projects[pid].workspace_id, uid)

\* "if not WorkspaceService.has_access(db, workspace_id, creator_id): return None"
ProjectService_create_project_result(wid, creator_id) ==
    IF ~WorkspaceService_has_access(wid, creator_id) THEN "None"
    ELSE IF ~project_workspace_id_ok(wid) THEN "IntegrityError"
    ELSE "Row"

\* ProjectService.create_project without "Add creator as a member".
ProjectService_creator_rows_none(pid, wid, creator_id) == project_members

\* "ProjectService.add_member(db, db_project.id, creator_id)" on the new row: the
\* project is there and no row of the new id is, so the creator is inserted when
\* the user exists and has access to the workspace.
ProjectService_creator_rows(pid, wid, creator_id) ==
    IF creator_id \in Users /\ WorkspaceService_has_access(wid, creator_id)
       THEN AppendRow(project_members, <<pid, creator_id>>)
       ELSE project_members

ProjectService_create_project(wid, creator_id) ==
    LET r == ProjectService_create_project_result(wid, creator_id)
    IN  /\ r = "Row" => next_project_id <= MaxProjects
        /\ IF r = "Row"
           THEN /\ projects' = Insert(projects, next_project_id, [workspace_id |-> wid])
                /\ project_members' =
                       ProjectService_creator_rows(next_project_id, wid, creator_id)
                /\ next_project_id' = next_project_id + 1
                /\ UNCHANGED <<requests, workspaces, workspace_members, tasks,
                               next_workspace_id, next_task_id>>
           ELSE UNCHANGED vars

\* "for field, value in update_data.items(): setattr(db_project, field, value)"
ProjectService_update_project_row(pid, p) ==
    [f \in DOMAIN projects[pid] |-> IF f \in DOMAIN p THEN p[f] ELSE projects[pid][f]]

ProjectService_update_project_result(pid, p) ==
    IF pid \notin DOMAIN projects THEN "None"
    ELSE IF ~project_workspace_id_ok(ProjectService_update_project_row(pid, p).workspace_id)
         THEN "IntegrityError"
    ELSE "Row"

ProjectService_update_project(pid, p) ==
    IF ProjectService_update_project_result(pid, p) = "Row"
       THEN /\ projects' = [projects EXCEPT ![pid] = ProjectService_update_project_row(pid, p)]
            /\ UNCHANGED <<requests, workspaces, workspace_members, project_members, tasks,
                           next_workspace_id, next_project_id, next_task_id>>
       ELSE UNCHANGED vars

ProjectService_delete_project_result(pid) ==
    IF pid \notin DOMAIN projects THEN "False" ELSE "True"

ProjectService_delete_project(pid) ==
    IF ProjectService_delete_project_result(pid) = "True"
       THEN /\ projects' = Delete(projects, {pid})
            /\ project_members' = Delete(project_members,
                                      {e \in DOMAIN project_members : e[1] = pid})
            /\ tasks' = Delete(tasks, project_tasks({pid}))
            /\ UNCHANGED <<requests, workspaces, workspace_members,
                           next_workspace_id, next_project_id, next_task_id>>
       ELSE UNCHANGED vars

\* The tests of ProjectService.add_member before its insert; "Insert" when the
\* call goes on to "db.execute(project_members.insert()...)".
ProjectService_add_member_checks(pid, uid) ==
    IF pid \notin DOMAIN projects THEN "False"
    ELSE IF uid \notin Users THEN "False"
    ELSE IF ~WorkspaceService_has_access(projects[pid].workspace_id, uid) THEN "False"
    ELSE IF in_project_members(uid, pid) THEN "True"
    ELSE "Insert"

ProjectService_add_member_result(pid, uid) ==
    IF ProjectService_add_member_checks(pid, uid) # "Insert"
       THEN ProjectService_add_member_checks(pid, uid)
    ELSE IF ~primary_key_ok(project_members, <<pid, uid>>) THEN "IntegrityError"
    ELSE "True"

ProjectService_add_member(pid, uid) ==
    IF /\ ProjectService_add_member_checks(pid, uid) = "Insert"
       /\ ProjectService_add_member_result(pid, uid) = "True"
       THEN /\ project_members' = AppendRow(project_members, <<pid, uid>>)
            /\ UNCHANGED <<requests, workspaces, workspace_members, projects, tasks,
                           next_workspace_id, next_project_id, next_task_id>>
       ELSE UNCHANGED vars

\* "return result.rowcount > 0"
ProjectService_remove_member_result(pid, uid) ==
    IF in_project_members(uid, pid) THEN "True" ELSE "False"

ProjectService_remove_member(pid, uid) ==
    /\ project_members' = Delete(project_members, {<<pid, uid>>})
    /\ UNCHANGED <<requests, workspaces, workspace_members, projects, tasks,
                   next_workspace_id, next_project_id, next_task_id>>

(* ----------------------------- TaskService ----------------------------- *)

TaskService_has_access(tid, uid) ==
    tid \in DOMAIN tasks /\ ProjectService_has_access(tasks[tid].project_id, uid)

\* The columns of class Task that the model keeps.
Task_columns == {"status", "project_id", "assignee_id", "created_by_id"}

\* The keyword arguments of "db_task = Task(...)" in TaskService.create_task, of
\* the columns the model keeps: the creator is passed as creator_id.
TaskService_create_task_kwargs == {"status", "project_id", "assignee_id", "creator_id"}

\* The payload of TaskService.create_task: its project_id is not read, the
\* project is the argument project_id.
TaskServiceCreatePayloads == [assignee_id : {None} \cup UserIds]

\* The constructor of a mapped class raises TypeError for a keyword that is not
\* one of its attributes.
TaskService_create_task_result(p, project_id, creator_id) ==
    IF ~ProjectService_has_access(project_id, creator_id) THEN "None"
    ELSE IF p.assignee_id # None /\ p.assignee_id \notin Users THEN "None"
    ELSE IF p.assignee_id # None /\ ~ProjectService_has_access(project_id, p.assignee_id)
         THEN "None"
    ELSE IF ~(TaskService_create_task_kwargs \subseteq Task_columns) THEN "TypeError"
    ELSE "Row"

\* "db.add(db_task); db.commit()" is reached when Task(...) returned a row;
\* otherwise the call returns None or raises before it.
TaskService_create_task(p, project_id, creator_id) ==
    LET r == TaskService_create_task_result(p, project_id, creator_id)
    IN  /\ r = "Row" => next_task_id <= MaxTasks
        /\ IF r = "Row"
           THEN /\ tasks' = Insert(tasks, next_task_id,
                                   [status |-> TODO,
                                    project_id |-> project_id,
                                    assignee_id |-> p.assignee_id,
                                    created_by_id |-> creator_id])
                /\ next_task_id' = next_task_id + 1
                /\ UNCHANGED <<requests, workspaces, workspace_members, projects, project_members,
                               next_workspace_id, next_project_id>>
           ELSE UNCHANGED vars

\* "for field, value in update_data.items(): setattr(db_task, field, value)"
TaskService_update_task_row(tid, p) ==
    [f \in DOMAIN tasks[tid] |-> IF f \in DOMAIN p THEN p[f] ELSE tasks[tid][f]]

\* The assignee is tested against the project the task is in before the update.
TaskService_update_task_result(tid, p, user_id) ==
    IF tid \notin DOMAIN tasks THEN "None"
    ELSE IF ~ProjectService_has_access(tasks[tid].project_id, user_id) THEN "None"
    ELSE IF payload_assignee_id(p) # None /\ payload_assignee_id(p) \notin Users THEN "None"
    ELSE IF /\ payload_assignee_id(p) # None
            /\ ~ProjectService_has_access(tasks[tid].project_id, payload_assignee_id(p))
         THEN "None"
    ELSE IF \/ ~task_project_id_ok(TaskService_update_task_row(tid, p).project_id)
            \/ ~task_assignee_id_ok(TaskService_update_task_row(tid, p).assignee_id)
         THEN "IntegrityError"
    ELSE "Row"

TaskService_update_task(tid, p, user_id) ==
    IF TaskService_update_task_result(tid, p, user_id) = "Row"
       THEN /\ tasks' = [tasks EXCEPT ![tid] = TaskService_update_task_row(tid, p)]
            /\ UNCHANGED <<requests, workspaces, workspace_members, projects,
                           project_members, next_workspace_id, next_project_id,
                           next_task_id>>
       ELSE UNCHANGED vars

TaskService_delete_task_result(tid, user_id) ==
    IF tid \notin DOMAIN tasks THEN "False"
    ELSE IF ~ProjectService_has_access(tasks[tid].project_id, user_id) THEN "False"
    ELSE "True"

TaskService_delete_task(tid, user_id) ==
    IF TaskService_delete_task_result(tid, user_id) = "True"
       THEN /\ tasks' = Delete(tasks, {tid})
            /\ UNCHANGED <<requests, workspaces, workspace_members, projects,
                           project_members, next_workspace_id, next_project_id,
                           next_task_id>>
       ELSE UNCHANGED vars

TaskService_update_task_status_result(tid, status, user_id) ==
    IF tid \notin DOMAIN tasks THEN "None"
    ELSE IF ~ProjectService_has_access(tasks[tid].project_id, user_id) THEN "None"
    ELSE "Row"

\* "db_task.status = status"
TaskService_update_task_status(tid, status, user_id) ==
    IF TaskService_update_task_status_result(tid, status, user_id) = "Row"
       THEN /\ tasks' = [tasks EXCEPT ![tid].status = status]
            /\ UNCHANGED <<requests, workspaces, workspace_members, projects,
                           project_members, next_workspace_id, next_project_id,
                           next_task_id>>
       ELSE UNCHANGED vars

(* ------------------ add-member requests, statement by statement -------- *)

\* Two requests served side by side each run in a transaction of their own and
\* read what is committed.  A request does its tests (begin), and when they let
\* it through it inserts its row and commits (commit); the primary key of the
\* association table is tested by that insert.

Answer(c, r) == [requests EXCEPT ![c] = [pc |-> "done", outcome |-> r]]

Pending(c, h, row) == [requests EXCEPT ![c] = [pc |-> "insert", handler |-> h, row |-> row]]

add_workspace_member_begin(c, u, wid, uid) ==
    /\ requests[c] = Idle
    /\ requests' = IF add_workspace_member_checks(u, wid, uid) = "OK"
                      THEN Pending(c, "add_workspace_member", <<wid, uid>>)
                      ELSE Answer(c, add_workspace_member_checks(u, wid, uid))
    /\ UNCHANGED <<workspaces, workspace_members, projects, project_members, tasks,
                   next_workspace_id, next_project_id, next_task_id>>

add_workspace_member_commit(c) ==
    /\ requests[c].pc = "insert"
    /\ requests[c].handler = "add_workspace_member"
    /\ IF primary_key_ok(workspace_members, requests[c].row)
          THEN /\ workspace_members' = AppendRow(workspace_members, requests[c].row)
               /\ requests' = Answer(c, "OK")
          ELSE /\ workspace_members' = workspace_members
               /\ requests' = Answer(c, "ServerError")
    /\ UNCHANGED <<workspaces, projects, project_members, tasks,
                   next_workspace_id, next_project_id, next_task_id>>

WorkspaceService_add_member_begin(c, wid, uid) ==
    /\ requests[c] = Idle
    /\ requests' = IF WorkspaceService_add_member_checks(wid, uid) = "Insert"
                      THEN Pending(c, "WorkspaceService.add_member", <<wid, uid>>)
                      ELSE Answer(c, WorkspaceService_add_member_checks(wid, uid))
    /\ UNCHANGED <<workspaces, workspace_members, projects, project_members, tasks,
                   next_workspace_id, next_project_id, next_task_id>>

WorkspaceService_add_member_commit(c) ==
    /\ requests[c].pc = "insert"
    /\ requests[c].handler = "WorkspaceService.add_member"
    /\ IF primary_key_ok(workspace_members, requests[c].row)
          THEN /\ workspace_members' = AppendRow(workspace_members, requests[c].row)
               /\ requests' = Answer(c, "True")
          ELSE /\ workspace_members' = workspace_members
               /\ requests' = Answer(c, "IntegrityError")
    /\ UNCHANGED <<workspaces, projects, project_members, tasks,
                   next_workspace_id, next_project_id, next_task_id>>

add_project_member_begin(c, u, pid, uid) ==
    /\ requests[c] = Idle
    /\ requests' = IF add_project_member_checks(u, pid, uid) = "OK"
                      THEN Pending(c, "add_project_member", <<pid, uid>>)
                      ELSE Answer(c, add_project_member_checks(u, pid, uid))
    /\ UNCHANGED <<workspaces, workspace_members, projects, project_members, tasks,
                   next_workspace_id, next_project_id, next_task_id>>

add_project_member_commit(c) ==
    /\ requests[c].pc = "insert"
    /\ requests[c].handler = "add_project_member"
    /\ IF primary_key_ok(project_members, requests[c].row)
          THEN /\ project_members' = AppendRow(project_members, requests[c].row)
               /\ requests' = Answer(c, "OK")
          ELSE /\ project_members' = project_members
               /\ requests' = Answer(c, "ServerError")
    /\ UNCHANGED <<workspaces, workspace_members, projects, tasks,
                   next_workspace_id, next_project_id, next_task_id>>

ProjectService_add_member_begin(c, pid, uid) ==
    /\ requests[c] = Idle
    /\ requests' = IF ProjectService_add_member_checks(pid, uid) = "Insert"
                      THEN Pending(c, "ProjectService.add_member", <<pid, uid>>)
                      ELSE Answer(c, ProjectService_add_member_checks(pid, uid))
    /\ UNCHANGED <<workspaces, workspace_members, projects, project_members, tasks,
                   next_workspace_id, next_project_id, next_task_id>>

ProjectService_add_member_commit(c) ==
    /\ requests[c].pc = "insert"
    /\ requests[c].handler = "ProjectService.add_member"
    /\ IF primary_key_ok(project_members, requests[c].row)
          THEN /\ project_members' = AppendRow(project_members, requests[c].row)
               /\ requests' = Answer(c, "True")
          ELSE /\ project_members' = project_members
               /\ requests' = Answer(c, "IntegrityError")
    /\ UNCHANGED <<workspaces, workspace_members, projects, tasks,
                   next_workspace_id, next_project_id, next_task_id>>

(* --------------------------- specification ----------------------------- *)

Next ==
    \/ \E u \in Users : create_workspace(u)
    \/ \E u \in Users, wid \in WorkspaceIds : read_workspace(u, wid)
    \/ \E u \in Users, wid \in WorkspaceIds : update_workspace(u, wid)
    \/ \E u \in Users, wid \in WorkspaceIds : delete_workspace(u, wid)
    \/ \E u \in Users, wid \in WorkspaceIds, uid \in UserIds : add_workspace_member(u, wid, uid)
    \/ \E u \in Users, wid \in WorkspaceIds, uid \in UserIds : remove_workspace_member(u, wid, uid)
    \/ \E u \in Users, p \in ProjectCreatePayloads : create_project(u, p)
    \/ \E u \in Users, pid \in ProjectIds : read_project(u, pid)
    \/ \E u \in Users, pid \in ProjectIds, p \in ProjectUpdatePayloads : update_project(u, pid, p)
    \/ \E u \in Users, pid \in ProjectIds : delete_project(u, pid)
    \/ \E u \in Users, pid \in ProjectIds, uid \in UserIds : add_project_member(u, pid, uid)
    \/ \E u \in Users, pid \in ProjectIds, uid \in UserIds : remove_project_member(u, pid, uid)
    \/ \E u \in Users, p \in TaskCreatePayloads : create_task(u, p)
    \/ \E u \in Users, tid \in TaskIds : read_task(u, tid)
    \/ \E u \in Users, tid \in TaskIds, p \in TaskUpdatePayloads : update_task(u, tid, p)
    \/ \E u \in Users, tid \in TaskIds : delete_task(u, tid)

Spec == Init /\ [][Next]_vars

(* ---------------- the routes with their list handlers ------------------ *)

ListNext ==
    \/ Next
    \/ \E u \in Users : read_workspaces(u)
    \/ \E u \in Users, workspace_id \in {None} \cup WorkspaceIds : read_projects(u, workspace_id)
    \/ \E u \in Users, q \in TaskFilters : read_tasks(u, q)

ListSpec == Init /\ [][ListNext]_vars

(* ----------- the service layer, with the create routes beside it ------- *)

\* No call of TaskService.create_task stores a task, so the tasks the service
\* functions work on come from the route.
ServiceNext ==
    \/ \E u \in Users : create_workspace(u)
    \/ \E u \in Users, p \in ProjectCreatePayloads : create_project(u, p)
    \/ \E u \in Users, p \in TaskCreatePayloads : create_task(u, p)
    \/ \E owner_id \in UserIds : WorkspaceService_create_workspace(owner_id)
    \/ \E user_id \in Users : WorkspaceService_get_workspaces_by_user(user_id)
    \/ \E wid \in WorkspaceIds : WorkspaceService_update_workspace(wid)
    \/ \E wid \in WorkspaceIds : WorkspaceService_delete_workspace(wid)
    \/ \E wid \in WorkspaceIds, uid \in UserIds : WorkspaceService_add_member(wid, uid)
    \/ \E wid \in WorkspaceIds, uid \in UserIds : WorkspaceService_remove_member(wid, uid)
    \/ \E wid \in WorkspaceIds, creator_id \in Users :
           ProjectService_create_project(wid, creator_id)
    \/ \E pid \in ProjectIds, p \in ProjectUpdatePayloads : ProjectService_update_project(pid, p)
    \/ \E pid \in ProjectIds : ProjectService_delete_project(pid)
    \/ \E pid \in ProjectIds, uid \in UserIds : ProjectService_add_member(pid, uid)
    \/ \E pid \in ProjectIds, uid \in UserIds : ProjectService_remove_member(pid, uid)
    \/ \E p \in TaskServiceCreatePayloads, pid \in ProjectIds, creator_id \in Users :
           TaskService_create_task(p, pid, creator_id)
    \/ \E tid \in TaskIds, p \in TaskUpdatePayloads, user_id \in Users :
           TaskService_update_task(tid, p, user_id)
    \/ \E tid \in TaskIds, user_id \in Users : TaskService_delete_task(tid, user_id)
    \/ \E tid \in TaskIds, status \in TaskStatus, user_id \in Users :
           TaskService_update_task_status(tid, status, user_id)

ServiceSpec == Init /\ [][ServiceNext]_vars

(* ------------------- two add-member requests at a time ----------------- *)

\* The association table that holds one row for each element of rows.
RowsOf(rows) == [r \in rows |-> 1]

\* One workspace with one project, any owner and any members, and no request yet.
ConcurrentInit ==
    /\ workspaces \in {Insert(EmptyTable, 1, [owner_id |-> o]) : o \in Users}
    /\ workspace_members \in {RowsOf(rows) : rows \in SUBSET ({1} \X Users)}
    /\ projects = Insert(EmptyTable, 1, [workspace_id |-> 1])
    /\ project_members \in {RowsOf(rows) : rows \in SUBSET ({1} \X Users)}
    /\ tasks = EmptyTable
    /\ next_workspace_id = 2
    /\ next_project_id = 2
    /\ next_task_id = 1
    /\ requests = NoRequests

ConcurrentNext ==
    \/ \E c \in Connections, u \in Users, wid \in DOMAIN workspaces, uid \in Users :
           add_workspace_member_begin(c, u, wid, uid)
    \/ \E c \in Connections : add_workspace_member_commit(c)
    \/ \E c \in Connections, wid \in DOMAIN workspaces, uid \in Users :
           WorkspaceService_add_member_begin(c, wid, uid)
    \/ \E c \in Connections : WorkspaceService_add_member_commit(c)
    \/ \E c \in Connections, u \in Users, pid \in DOMAIN projects, uid \in Users :
           add_project_member_begin(c, u, pid, uid)
    \/ \E c \in Connections : add_project_member_commit(c)
    \/ \E c \in Connections, pid \in DOMAIN projects, uid \in Users :
           ProjectService_add_member_begin(c, pid, uid)
    \/ \E c \in Connections : ProjectService_add_member_commit(c)

ConcurrentSpec == ConcurrentInit /\ [][ConcurrentNext]_vars

(* ------------- the service creates, statement by statement ------------- *)

\* The new row is committed and the add_member call for creator row[2] is next.
Created(c, h, row) ==
    [requests EXCEPT ![c] = [pc |-> "add_member", handler |-> h, row |-> row]]

\* "db.add(db_workspace); db.commit(); db.refresh(db_workspace)"
WorkspaceService_create_workspace_begin(c, owner_id) ==
    LET r == WorkspaceService_create_workspace_result(owner_id)
    IN  /\ requests[c] = Idle
        /\ r = "Row" => next_workspace_id <= MaxWorkspaces
        /\ IF r = "Row"
           THEN /\ workspaces' = Insert(workspaces, next_workspace_id,
                                        [owner_id |-> owner_id])
                /\ next_workspace_id' = next_workspace_id + 1
                /\ requests' = Created(c, "WorkspaceService.create_workspace",
                                       <<next_workspace_id, owner_id>>)
                /\ UNCHANGED <<workspace_members, projects, project_members, tasks,
                               next_project_id, next_task_id>>
           ELSE /\ requests' = Answer(c, r)
                /\ UNCHANGED <<workspaces, workspace_members, projects, project_members,
                               tasks, next_workspace_id, next_project_id, next_task_id>>

\* "WorkspaceService.add_member(db, db_workspace.id, owner_id)", whose result is
\* dropped, and "return db_workspace".
WorkspaceService_create_workspace_finish(c) ==
    /\ requests[c].pc = "add_member"
    /\ requests[c].handler = "WorkspaceService.create_workspace"
    /\ LET wid == requests[c].row[1]
           uid == requests[c].row[2]
       IN  workspace_members' =
               IF /\ WorkspaceService_add_member_checks(wid, uid) = "Insert"
                  /\ WorkspaceService_add_member_result(wid, uid) = "True"
                  THEN AppendRow(workspace_members, <<wid, uid>>)
                  ELSE workspace_members
    /\ requests' = Answer(c, "Row")
    /\ UNCHANGED <<workspaces, projects, project_members, tasks,
                   next_workspace_id, next_project_id, next_task_id>>

\* The access test, then "db.add(db_project); db.commit(); db.refresh(db_project)"
ProjectService_create_project_begin(c, wid, creator_id) ==
    LET r == ProjectService_create_project_result(wid, creator_id)
    IN  /\ requests[c] = Idle
        /\ r = "Row" => next_project_id <= MaxProjects
        /\ IF r = "Row"
           THEN /\ projects' = Insert(projects, next_project_id, [workspace_id |-> wid])
                /\ next_project_id' = next_project_id + 1
                /\ requests' = Created(c, "ProjectService.create_project",
                                       <<next_project_id, creator_id>>)
                /\ UNCHANGED <<workspaces, workspace_members, project_members, tasks,
                               next_workspace_id, next_task_id>>
           ELSE /\ requests' = Answer(c, r)
                /\ UNCHANGED <<workspaces, workspace_members, projects, project_members,
                               tasks, next_workspace_id, next_project_id, next_task_id>>

\* "ProjectService.add_member(db, db_project.id, creator_id)", whose result is
\* dropped, and "return db_project".
ProjectService_create_project_finish(c) ==
    /\ requests[c].pc = "add_member"
    /\ requests[c].handler = "ProjectService.create_project"
    /\ LET pid == requests[c].row[1]
           uid == requests[c].row[2]
       IN  project_members' =
               IF /\ ProjectService_add_member_checks(pid, uid) = "Insert"
                  /\ ProjectService_add_member_result(pid, uid) = "True"
                  THEN AppendRow(project_members, <<pid, uid>>)
                  ELSE project_members
    /\ requests' = Answer(c, "Row")
    /\ UNCHANGED <<workspaces, workspace_members, projects, tasks,
                   next_workspace_id, next_project_id, next_task_id>>

\* The two creates of the service layer on two connections, with the calls of
\* other requests that change what add_member tests between their two commits.
CreateNext ==
    \/ \E c \in Connections, owner_id \in Users :
           WorkspaceService_create_workspace_begin(c, owner_id)
    \/ \E c \in Connections : WorkspaceService_create_workspace_finish(c)
    \/ \E c \in Connections, wid \in WorkspaceIds, creator_id \in Users :
           ProjectService_create_project_begin(c, wid, creator_id)
    \/ \E c \in Connections : ProjectService_create_project_finish(c)
    \/ \E wid \in WorkspaceIds, uid \in Users : WorkspaceService_add_member(wid, uid)
    \/ \E wid \in WorkspaceIds, uid \in Users : WorkspaceService_remove_member(wid, uid)
    \/ \E wid \in WorkspaceIds : WorkspaceService_delete_workspace(wid)

CreateSpec == Init /\ [][CreateNext]_vars

(* ---------------------- the requests the routes refuse ---------------- *)

\* The tables with keys among ids and rows among rows.
Tables(ids, rows) == UNION {[ks -> rows] : ks \in SUBSET ids}

\* The stores the routes reach: the rows ever inserted are those below the next
\* id of their table and any of them may be deleted; a project was inserted
\* after a workspace and a task after a project; a project is in a workspace
\* that exists and a task in a project that exists; members are users of a
\* workspace or project that exists; an assignee and a creator are any users.
Stores ==
    /\ next_workspace_id \in 1 .. (MaxWorkspaces + 1)
    /\ next_project_id \in 1 .. (MaxProjects + 1)
    /\ next_task_id \in 1 .. (MaxTasks + 1)
    /\ next_project_id > 1 => next_workspace_id > 1
    /\ next_task_id > 1 => next_project_id > 1
    /\ workspaces \in Tables(1 .. (next_workspace_id - 1), [owner_id : Users])
    /\ workspace_members \in {RowsOf(rows) : rows \in SUBSET ((DOMAIN workspaces) \X Users)}
    /\ projects \in Tables(1 .. (next_project_id - 1), [workspace_id : DOMAIN workspaces])
    /\ project_members \in {RowsOf(rows) : rows \in SUBSET ((DOMAIN projects) \X Users)}
    /\ tasks \in Tables(1 .. (next_task_id - 1),
                         [status : TaskStatus, project_id : DOMAIN projects,
                          assignee_id : {None} \cup Users, created_by_id : Users])
    /\ requests = NoRequests

\* The four outcomes by which a route refuses a request.
Refusals == {"NotFound", "PermissionDenied", "InvalidReference", "Conflict"}

\* A request that one of the routes refuses, in any store.
RefusedNext ==
    \/ \E u \in Users, wid \in WorkspaceIds :
           read_workspace_outcome(u, wid) \in Refusals /\ read_workspace(u, wid)
    \/ \E u \in Users, wid \in WorkspaceIds :
           update_workspace_outcome(u, wid) \in Refusals /\ update_workspace(u, wid)
    \/ \E u \in Users, wid \in WorkspaceIds :
           delete_workspace_outcome(u, wid) \in Refusals /\ delete_workspace(u, wid)
    \/ \E u \in Users, wid \in WorkspaceIds, uid \in UserIds :
           /\ add_workspace_member_outcome(u, wid, uid) \in Refusals
           /\ add_workspace_member(u, wid, uid)
    \/ \E u \in Users, wid \in WorkspaceIds, uid \in UserIds :
           /\ remove_workspace_member_outcome(u, wid, uid) \in Refusals
           /\ remove_workspace_member(u, wid, uid)
    \/ \E u \in Users, p \in ProjectCreatePayloads :
           create_project_outcome(u, p) \in Refusals /\ create_project(u, p)
    \/ \E u \in Users, pid \in ProjectIds :
           read_project_outcome(u, pid) \in Refusals /\ read_project(u, pid)
    \/ \E u \in Users, pid \in ProjectIds, p \in ProjectUpdatePayloads :
           update_project_outcome(u, pid, p) \in Refusals /\ update_project(u, pid, p)
    \/ \E u \in Users, pid \in ProjectIds :
           delete_project_outcome(u, pid) \in Refusals /\ delete_project(u, pid)
    \/ \E u \in Users, pid \in ProjectIds, uid \in UserIds :
           /\ add_project_member_outcome(u, pid, uid) \in Refusals
           /\ add_project_member(u, pid, uid)
    \/ \E u \in Users, pid \in ProjectIds, uid \in UserIds :
           /\ remove_project_member_outcome(u, pid, uid) \in Refusals
           /\ remove_project_member(u, pid, uid)
    \/ \E u \in Users, p \in TaskCreatePayloads :
           create_task_outcome(u, p) \in Refusals /\ create_task(u, p)
    \/ \E u \in Users, tid \in TaskIds :
           read_task_outcome(u, tid) \in Refusals /\ read_task(u, tid)
    \/ \E u \in Users, tid \in TaskIds, p \in TaskUpdatePayloads :
           update_task_outcome(u, tid, p) \in Refusals /\ update_task(u, tid, p)
    \/ \E u \in Users, tid \in TaskIds :
           delete_task_outcome(u, tid) \in Refusals /\ delete_task(u, tid)

RefusalSpec == Stores /\ [][RefusedNext]_vars

(* ------------------- the permission rules as specified ----------------- *)

\* The non-superuser users.
Regular == Users \ Superusers

\* Section 4.1 of the specification, over the rows of the current state.
canReadWorkspace(u, wid) ==
    is_superuser(u) \/ u = workspaces[wid].owner_id \/ <<wid, u>> \in DOMAIN workspace_members

canManageWorkspace(u, wid) ==
    is_superuser(u) \/ u = workspaces[wid].owner_id

canReadProject(u, pid) ==
    \/ canReadWorkspace(u, projects[pid].workspace_id)
    \/ <<pid, u>> \in DOMAIN project_members

canManageProject(u, pid) == canManageWorkspace(u, projects[pid].workspace_id)

canReadTask(u, tid) ==
    \/ canReadProject(u, tasks[tid].project_id)
    \/ u = tasks[tid].assignee_id
    \/ u = tasks[tid].created_by_id

canManageTask(u, tid) ==
    \/ canManageProject(u, tasks[tid].project_id)
    \/ u = tasks[tid].created_by_id
    \/ u = tasks[tid].assignee_id

canAssign(uid, pid) ==
    \/ <<pid, uid>> \in DOMAIN project_members
    \/ uid = workspaces[projects[pid].workspace_id].owner_id
    \/ <<projects[pid].workspace_id, uid>> \in DOMAIN workspace_members

\* u holds no edge to task tid but the assignment.
OnlyAssignee(u, tid) ==
    /\ u \in Regular
    /\ u = tasks[tid].assignee_id
    /\ u # tasks[tid].created_by_id
    /\ ~canReadProject(u, tasks[tid].project_id)

(* -------------------------------- C1 ----------------------------------- *)

C2_ReadTaskPermission ==
    \A u \in Users, tid \in DOMAIN tasks :
        /\ read_task_outcome(u, tid) = (IF canReadTask(u, tid) THEN "OK" ELSE "PermissionDenied")
        /\ OnlyAssignee(u, tid) =>
               /\ read_task_outcome(u, tid) = "OK"
               /\ read_project_outcome(u, tasks[tid].project_id) = "PermissionDenied"
               /\ read_workspace_outcome(u, projects[tasks[tid].project_id].workspace_id)
                      = "PermissionDenied"

\* A user who is only the assignee of a task has read it.
C2_Witness ==
    \E u \in Users, tid \in DOMAIN tasks :
        OnlyAssignee(u, tid) /\ read_task_outcome(u, tid) = "OK"

(* -------------------------------- C3 ----------------------------------- *)

\* The responses of every route handler to actor u, over every existing workspace,
\* project and task and every payload.
ResponsesTo(u) ==
    UNION {
        {read_workspace_outcome(u, wid), update_workspace_outcome(u, wid),
         delete_workspace_outcome(u, wid)}
            \cup {add_workspace_member_outcome(u, wid, uid) : uid \in UserIds}
            \cup {remove_workspace_member_outcome(u, wid, uid) : uid \in UserIds}
            \cup {create_project_outcome(u, [workspace_id |-> wid])}
        : wid \in DOMAIN workspaces}
    \cup UNION {
        {read_project_outcome(u, pid), delete_project_outcome(u, pid)}
            \cup {update_project_outcome(u, pid, p) : p \in ProjectUpdatePayloads}
            \cup {add_project_member_outcome(u, pid, uid) : uid \in UserIds}
            \cup {remove_project_member_outcome(u, pid, uid) : uid \in UserIds}
            \cup {create_task_outcome(u, [project_id |-> pid, assignee_id |-> a])
                      : a \in {None} \cup UserIds}
        : pid \in DOMAIN projects}
    \cup UNION {
        {read_task_outcome(u, tid), delete_task_outcome(u, tid)}
            \cup {update_task_outcome(u, tid, p) : p \in TaskUpdatePayloads}
        : tid \in DOMAIN tasks}

\* C3: no handler answers PermissionDenied to a superuser, on any existing
\* workspace, project or task, whatever the owner and the member sets are.
C3_SuperuserNeverDenied ==
    \A u \in Superusers : "PermissionDenied" \notin ResponsesTo(u)

\* A superuser who is neither owner nor member of the workspace, not a member of
\* the project, neither creator nor assignee of the task, and deletes the task.
C3_Witness ==
    \E u \in Superusers, tid \in DOMAIN tasks :
        LET pid == tasks[tid].project_id
            wid == projects[pid].workspace_id
        IN  /\ u # workspaces[wid].owner_id
            /\ <<wid, u>> \notin DOMAIN workspace_members
            /\ <<pid, u>> \notin DOMAIN project_members
            /\ u # tasks[tid].created_by_id
            /\ u # tasks[tid].assignee_id
            /\ delete_task_outcome(u, tid) = "OK"
            /\ ENABLED (delete_task(u, tid) /\ tid \notin DOMAIN tasks')

(* -------------------------------- C4 ----------------------------------- *)

\* The responses of the four workspace management handlers to actor u on wid.
ManageWorkspaceResponses(u, wid) ==
    {update_workspace_outcome(u, wid), delete_workspace_outcome(u, wid)}
        \cup {add_workspace_member_outcome(u, wid, uid) : uid \in UserIds}
        \cup {remove_workspace_member_outcome(u, wid, uid) : uid \in UserIds}

\* C4: an actor whom any workspace management handler does not refuse is not refused
\* the read either; a member who is neither owner nor superuser reads the workspace
\* and is refused by each of the four management handlers, whatever the payload.
C4_ManageImpliesRead ==
    \A u \in Users, wid \in DOMAIN workspaces :
        /\ ManageWorkspaceResponses(u, wid) # {"PermissionDenied"}
               => read_workspace_outcome(u, wid) = "OK"
        /\ ManageWorkspaceResponses(u, wid) # {"PermissionDenied"}
               <=> canManageWorkspace(u, wid)
        /\ canManageWorkspace(u, wid) => "PermissionDenied" \notin ManageWorkspaceResponses(u, wid)
        /\ (u \in Regular /\ u # workspaces[wid].owner_id /\ <<wid, u>> \in DOMAIN workspace_members)
               => /\ read_workspace_outcome(u, wid) = "OK"
                  /\ ManageWorkspaceResponses(u, wid) = {"PermissionDenied"}

\* A member who is neither owner nor superuser, beside an owner who is no member.
C4_Witness ==
    \E u \in Regular, wid \in DOMAIN workspaces :
        /\ u # workspaces[wid].owner_id
        /\ <<wid, u>> \in DOMAIN workspace_members
        /\ <<wid, workspaces[wid].owner_id>> \notin DOMAIN workspace_members
        /\ workspaces[wid].owner_id \in Regular
        /\ read_workspace_outcome(u, wid) = "OK"
        /\ read_workspace_outcome(workspaces[wid].owner_id, wid) = "OK"
        /\ delete_workspace_outcome(u, wid) = "PermissionDenied"

(* -------------------------------- C5 ----------------------------------- *)

\* The responses of the four project management handlers to actor u on pid.
ManageProjectResponses(u, pid) ==
    {delete_project_outcome(u, pid)}
        \cup {update_project_outcome(u, pid, p) : p \in ProjectUpdatePayloads}
        \cup {add_project_member_outcome(u, pid, uid) : uid \in UserIds}
        \cup {remove_project_member_outcome(u, pid, uid) : uid \in UserIds}

\* C5: the owner of the workspace is never refused by update_project,
\* delete_project, add_project_member and remove_project_member on a project of
\* the workspace, member of the project or not; a project member who is neither
\* the workspace owner nor a superuser is refused by each of the four.
C5_OwnerManagesProjects ==
    \A u \in Users, pid \in DOMAIN projects :
        /\ u = workspaces[projects[pid].workspace_id].owner_id
               => /\ "PermissionDenied" \notin ManageProjectResponses(u, pid)
                  /\ delete_project_outcome(u, pid) = "OK"
                  /\ update_project_outcome(u, pid, EmptyTable) = "OK"
                  /\ \A uid \in Users :
                         /\ add_project_member_outcome(u, pid, uid)
                                = (IF <<pid, uid>> \in DOMAIN project_members THEN "Conflict" ELSE "OK")
                         /\ remove_project_member_outcome(u, pid, uid)
                                = (IF <<pid, uid>> \in DOMAIN project_members THEN "OK" ELSE "Conflict")
        /\ (/\ <<pid, u>> \in DOMAIN project_members
            /\ u \in Regular
            /\ u # workspaces[projects[pid].workspace_id].owner_id)
               => ManageProjectResponses(u, pid) = {"PermissionDenied"}

\* An owner outside the member set of a project of the workspace, and a member of
\* that project who is neither owner nor superuser.
C5_Witness ==
    \E u \in Regular, v \in Regular, pid \in DOMAIN projects :
        /\ u = workspaces[projects[pid].workspace_id].owner_id
        /\ <<pid, u>> \notin DOMAIN project_members
        /\ v # u
        /\ <<pid, v>> \in DOMAIN project_members
        /\ delete_project_outcome(u, pid) = "OK"
        /\ delete_project_outcome(v, pid) = "PermissionDenied"

(* -------------------------------- C6 ----------------------------------- *)

canCreateProject(u, wid) == canReadWorkspace(u, wid)

\* In every state: a non-superuser who is not the owner reads the workspace and
\* creates projects in it exactly while being a member, and is refused by the
\* management handlers also then.
C6_State ==
    \A u \in Regular, wid \in DOMAIN workspaces :
        u # workspaces[wid].owner_id =>
            IF <<wid, u>> \in DOMAIN workspace_members
            THEN /\ read_workspace_outcome(u, wid) = "OK"
                 /\ create_project_outcome(u, [workspace_id |-> wid]) = "OK"
                 /\ ManageWorkspaceResponses(u, wid) = {"PermissionDenied"}
            ELSE /\ read_workspace_outcome(u, wid) = "PermissionDenied"
                 /\ create_project_outcome(u, [workspace_id |-> wid]) = "PermissionDenied"

\* Across a granted add_workspace_member and a granted remove_workspace_member of a
\* non-superuser u who is not the owner.
C6_Step ==
    \A a \in Users, u \in Regular, wid \in DOMAIN workspaces :
        (workspace_members' # workspace_members /\ u # workspaces[wid].owner_id) =>
            /\ (add_workspace_member_outcome(a, wid, u) = "OK" /\ add_workspace_member(a, wid, u))
                   => /\ read_workspace_outcome(u, wid) = "PermissionDenied"
                      /\ create_project_outcome(u, [workspace_id |-> wid]) = "PermissionDenied"
                      /\ (read_workspace_outcome(u, wid))' = "OK"
                      /\ (create_project_outcome(u, [workspace_id |-> wid]))' = "OK"
                      /\ (ManageWorkspaceResponses(u, wid))' = {"PermissionDenied"}
            /\ (remove_workspace_member_outcome(a, wid, u) = "OK"
                    /\ remove_workspace_member(a, wid, u))
                   => /\ read_workspace_outcome(u, wid) = "OK"
                      /\ create_project_outcome(u, [workspace_id |-> wid]) = "OK"
                      /\ (read_workspace_outcome(u, wid))' = "PermissionDenied"
                      /\ (create_project_outcome(u, [workspace_id |-> wid]))'
                             = "PermissionDenied"

\* C6: a non-superuser U2 who does not own workspace W is refused read_workspace and
\* create_project while not a member; from the step that adds U2 as a member on
\* both are granted and update, delete, add-member and remove-member stay refused;
\* from the step that removes U2 on both are refused again.
C6_MemberScenario == [](C6_State) /\ [][C6_Step]_vars

\* U2 is a member of a workspace another non-superuser owns, reads it, is refused
\* its deletion, and the owner can remove U2 again.
C6_Witness ==
    \E u \in Regular, wid \in DOMAIN workspaces :
        /\ workspaces[wid].owner_id \in Regular \ {u}
        /\ <<wid, u>> \in DOMAIN workspace_members
        /\ read_workspace_outcome(u, wid) = "OK"
        /\ create_project_outcome(u, [workspace_id |-> wid]) = "OK"
        /\ delete_workspace_outcome(u, wid) = "PermissionDenied"
        /\ ENABLED (remove_workspace_member(workspaces[wid].owner_id, wid, u)
                       /\ <<wid, u>> \notin DOMAIN workspace_members')

(* -------------------------------- C7 ----------------------------------- *)

canCreateTask(u, pid) == canReadProject(u, pid)

\* C7: when an actor permitted to create tasks in project P names an existing user
\* as assignee, create_task answers OK and stores the task if the candidate is a
\* member of P, or the owner or a member of P's workspace, and answers
\* InvalidReference and stores nothing otherwise, superuser or not.
C7_AssigneeValidatedOnCreate ==
    \A u \in Users, pid \in DOMAIN projects, a \in Users :
        LET p == [project_id |-> pid, assignee_id |-> a]
        IN  canCreateTask(u, pid) =>
                /\ create_task_outcome(u, p)
                       = (IF canAssign(a, pid) THEN "OK" ELSE "InvalidReference")
                /\ next_task_id <= MaxTasks =>
                       /\ canAssign(a, pid) <=>
                              ENABLED (create_task(u, p) /\ next_task_id \in DOMAIN tasks'
                                           /\ tasks'[next_task_id].assignee_id = a)
                       /\ ~canAssign(a, pid) => ~ENABLED (create_task(u, p) /\ vars' # vars)

\* A superuser named as assignee, who is neither member of the project nor owner
\* or member of its workspace, has been rejected.
C7_Witness ==
    \E u \in Regular, pid \in DOMAIN projects, a \in Superusers :
        /\ canCreateTask(u, pid)
        /\ ~canAssign(a, pid)
        /\ next_task_id <= MaxTasks
        /\ create_task_outcome(u, [project_id |-> pid, assignee_id |-> a]) = "InvalidReference"

(* -------------------------------- C8 ----------------------------------- *)

\* canAssign over the rows of the state after the step.
canAssignAfter(uid, pid) ==
    /\ pid \in DOMAIN projects'
    /\ projects'[pid].workspace_id \in DOMAIN workspaces'
    /\ \/ <<pid, uid>> \in DOMAIN project_members'
       \/ uid = workspaces'[projects'[pid].workspace_id].owner_id
       \/ <<projects'[pid].workspace_id, uid>> \in DOMAIN workspace_members'

\* C8: after every step that stores a task with an assignee, or changes the
\* assignee of a task to a user, that user is a member of the project the task is
\* in after the step, or the owner or a member of that project's workspace.
C8_AssigneeValidAfterAssignment ==
    [][\A tid \in DOMAIN tasks' :
           (/\ tasks'[tid].assignee_id # None
            /\ tid \in DOMAIN tasks => tasks[tid].assignee_id # tasks'[tid].assignee_id)
               => canAssignAfter(tasks'[tid].assignee_id, tasks'[tid].project_id)]_vars

(* -------------------------------- C9 ----------------------------------- *)

\* C9: every stored project names an existing workspace and every stored task
\* names an existing project.
C9_ReferentialIntegrity ==
    /\ \A pid \in DOMAIN projects : projects[pid].workspace_id \in DOMAIN workspaces
    /\ \A tid \in DOMAIN tasks : tasks[tid].project_id \in DOMAIN projects

\* An update of a project that names no workspace, and an update of a task that
\* names no project, by an actor the handlers let through, are turned down.
C9_Witness ==
    \E u \in Regular, tid \in DOMAIN tasks, pid \in ProjectIds \ DOMAIN projects :
        /\ update_project_outcome(u, tasks[tid].project_id,
                                  [workspace_id |-> MaxWorkspaces + 1]) = "ServerError"
        /\ update_project_outcome(u, tasks[tid].project_id, [workspace_id |-> None])
               = "ServerError"
        /\ update_task_outcome(u, tid, [project_id |-> pid]) = "ServerError"
        /\ update_task_outcome(u, tid, [project_id |-> None]) = "ServerError"

(* -------------------------------- C10 ---------------------------------- *)

\* Table t with the rows under the keys in gone removed and every other row as it was.
RemovedExactly(before, after, gone) ==
    /\ DOMAIN after = DOMAIN before \ gone
    /\ \A k \in DOMAIN after : after[k] = before[k]

C11_CreatorIsOwnerAndMember ==
    [][\A u \in Users :
           /\ (next_workspace_id' # next_workspace_id /\ create_workspace(u)) =>
                  /\ workspaces'[next_workspace_id].owner_id = u
                  /\ <<next_workspace_id, u>> \in DOMAIN workspace_members'
           /\ (next_workspace_id' # next_workspace_id
                   /\ WorkspaceService_create_workspace(u)) =>
                  /\ workspaces'[next_workspace_id].owner_id = u
                  /\ <<next_workspace_id, u>> \in DOMAIN workspace_members'
      ]_vars

NoDuplicateRows(table) == \A row \in DOMAIN table : table[row] = 1

\* C13: in every state reached by create, add-member and remove-member
\* operations each (workspace, user) pair and each (project, user) pair is in the
\* membership relation at most once, and no add-member request of the routes
\* leads to a state where one is there twice.
C13_NoDuplicateMembers ==
    /\ NoDuplicateRows(workspace_members)
    /\ NoDuplicateRows(project_members)
    /\ \A u \in Users, wid \in DOMAIN workspaces, uid \in Users :
           ~ENABLED (/\ add_workspace_member(u, wid, uid)
                     /\ ~NoDuplicateRows(workspace_members'))
    /\ \A u \in Users, pid \in DOMAIN projects, uid \in Users :
           ~ENABLED (/\ add_project_member(u, pid, uid)
                     /\ ~NoDuplicateRows(project_members'))

\* A user who is member of a workspace and of a project in it is added again, to
\* both, through the routes and through the services: the routes refuse, the
\* services answer True, and the tables stay as they are.
C13_Witness ==
    \E s \in Superusers, pid \in DOMAIN projects, uid \in Users :
        /\ in_project_members(uid, pid)
        /\ in_workspace_members(uid, projects[pid].workspace_id)
        /\ add_workspace_member_outcome(s, projects[pid].workspace_id, uid) = "Conflict"
        /\ add_project_member_outcome(s, pid, uid) = "Conflict"
        /\ WorkspaceService_add_member_result(projects[pid].workspace_id, uid) = "True"
        /\ ProjectService_add_member_result(pid, uid) = "True"
        /\ ENABLED (/\ WorkspaceService_add_member(projects[pid].workspace_id, uid)
                    /\ workspace_members' = workspace_members)
        /\ ENABLED (/\ ProjectService_add_member(pid, uid)
                    /\ project_members' = project_members)
        /\ workspace_members[<<projects[pid].workspace_id, uid>>] = 1
        /\ project_members[<<pid, uid>>] = 1

(* ------------------------ the update handlers -------------------------- *)

\* A store with one workspace, its projects and one task, of any owner, members,
\* status, project, assignee and creator.
UpdateInit ==
    /\ workspaces \in {Insert(EmptyTable, 1, [owner_id |-> o]) : o \in Users}
    /\ workspace_members \in {RowsOf(rows) : rows \in SUBSET ({1} \X Users)}
    /\ projects = [pid \in ProjectIds |-> [workspace_id |-> 1]]
    /\ project_members \in {RowsOf(rows) : rows \in SUBSET ({1} \X Users)}
    /\ tasks \in {Insert(EmptyTable, 1, t) :
                     t \in [status : TaskStatus, project_id : ProjectIds,
                            assignee_id : {None} \cup Users, created_by_id : Users]}
    /\ next_workspace_id = 2
    /\ next_project_id = MaxProjects + 1
    /\ next_task_id = 2
    /\ requests = NoRequests

UpdateNext ==
    \/ \E u \in Users, wid \in WorkspaceIds : update_workspace(u, wid)
    \/ \E wid \in WorkspaceIds : WorkspaceService_update_workspace(wid)
    \/ \E u \in Users, pid \in ProjectIds, p \in ProjectUpdatePayloads : update_project(u, pid, p)
    \/ \E pid \in ProjectIds, p \in ProjectUpdatePayloads : ProjectService_update_project(pid, p)
    \/ \E u \in Users, tid \in TaskIds, p \in TaskUpdatePayloads : update_task(u, tid, p)
    \/ \E tid \in TaskIds, p \in TaskUpdatePayloads, user_id \in Users :
           TaskService_update_task(tid, p, user_id)
    \/ \E tid \in TaskIds, status \in TaskStatus, user_id \in Users :
           TaskService_update_task_status(tid, status, user_id)

UpdateSpec == UpdateInit /\ [][UpdateNext]_vars

(* --------------------------- concurrent adds --------------------------- *)

\* The pending insert r goes to workspace_members (else to project_members).
ToWorkspaceMembers(r) ==
    r.handler \in {"add_workspace_member", "WorkspaceService.add_member"}

\* The association table a pending insert goes to.
PendingTable(r) == IF ToWorkspaceMembers(r) THEN workspace_members ELSE project_members

\* The insert of connection c, pending since its tests, is carried out.
Commits(c) == requests[c].pc = "insert" /\ requests'[c].pc = "done"

\* A commit whose row another request has inserted since the tests changes
\* nothing and ends in the error of the primary key; any other commit inserts
\* the row once and succeeds.
C14_Step ==
    \A c \in Connections :
        Commits(c) =>
            IF requests[c].row \in DOMAIN PendingTable(requests[c])
               THEN /\ workspace_members' = workspace_members
                    /\ project_members' = project_members
                    /\ requests'[c].outcome \in {"ServerError", "IntegrityError"}
               ELSE /\ IF ToWorkspaceMembers(requests[c])
                          THEN /\ workspace_members'
                                      = AppendRow(workspace_members, requests[c].row)
                               /\ project_members' = project_members
                          ELSE /\ project_members'
                                      = AppendRow(project_members, requests[c].row)
                               /\ workspace_members' = workspace_members
                    /\ requests'[c].outcome \in {"OK", "True"}

\* C14: when two add-member requests for the same pair each pass their
\* already-a-member test before either inserts, the insert of the second writer
\* is a detected conflict that changes nothing, and the pair is in the
\* membership relation exactly once.
C14_ConcurrentAdd ==
    /\ [](NoDuplicateRows(workspace_members) /\ NoDuplicateRows(project_members))
    /\ [][C14_Step]_vars

\* Both requests have answered: the first writer with success, the second with
\* the error that only the insert of a present row gives.
C14_Witness ==
    /\ requests[1].pc = "done" /\ requests[1].outcome \in {"OK", "True"}
    /\ requests[2].pc = "done" /\ requests[2].outcome \in {"ServerError", "IntegrityError"}
    /\ NoDuplicateRows(workspace_members)
    /\ NoDuplicateRows(project_members)

(* ------------------------------ updates -------------------------------- *)

\* The row after is the row before with the fields of the payload p written over.
OnlyPayloadFields(before, after, p) ==
    \A f \in DOMAIN before : after[f] = (IF f \in DOMAIN p THEN p[f] ELSE before[f])

\* Row id of the table is the only thing a step changes in it.
OnlyRow(before, after, id) ==
    /\ DOMAIN after = DOMAIN before
    /\ \A k \in DOMAIN before \ {id} : after[k] = before[k]

\* What a successful update of task tid with payload p may change.
TaskFrame(tid, p) ==
    /\ OnlyPayloadFields(tasks[tid], tasks'[tid], p)
    /\ OnlyRow(tasks, tasks', tid)
    /\ UNCHANGED <<workspaces, workspace_members, projects, project_members>>

\* What a successful update of project pid with payload p may change.
ProjectFrame(pid, p) ==
    /\ OnlyPayloadFields(projects[pid], projects'[pid], p)
    /\ OnlyRow(projects, projects', pid)
    /\ UNCHANGED <<workspaces, workspace_members, project_members, tasks>>

\* C15: a successful update of a task, project or workspace, through the route
\* or the service, changes only the fields present in the payload, in the
\* updated row only: a payload with the status alone leaves project_id,
\* assignee_id and created_by_id as they were.
C15_PartialUpdate ==
    /\ \A u \in Users, tid \in DOMAIN tasks :
           /\ \A p \in TaskUpdatePayloads :
                  /\ update_task_outcome(u, tid, p) = "OK" =>
                         ~ENABLED (update_task(u, tid, p) /\ ~TaskFrame(tid, p))
                  /\ TaskService_update_task_result(tid, p, u) = "Row" =>
                         ~ENABLED (TaskService_update_task(tid, p, u) /\ ~TaskFrame(tid, p))
           /\ \A status \in TaskStatus :
                  TaskService_update_task_status_result(tid, status, u) = "Row" =>
                      ~ENABLED (/\ TaskService_update_task_status(tid, status, u)
                                /\ ~TaskFrame(tid, [status |-> status]))
    /\ \A u \in Users, pid \in DOMAIN projects, p \in ProjectUpdatePayloads :
           /\ update_project_outcome(u, pid, p) = "OK" =>
                  ~ENABLED (update_project(u, pid, p) /\ ~ProjectFrame(pid, p))
           /\ ProjectService_update_project_result(pid, p) = "Row" =>
                  ~ENABLED (ProjectService_update_project(pid, p) /\ ~ProjectFrame(pid, p))
    /\ \A u \in Users, wid \in DOMAIN workspaces :
           /\ ~ENABLED (update_workspace(u, wid) /\ ~UNCHANGED vars)
           /\ ~ENABLED (WorkspaceService_update_workspace(wid) /\ ~UNCHANGED vars)

\* A task in the default status with an assignee: the payload {status: "done"}
\* is accepted by the route and by the service and changes the status alone.
C15_Witness ==
    \E u \in Users, tid \in DOMAIN tasks :
        /\ tasks[tid].status = TODO
        /\ tasks[tid].assignee_id # None
        /\ tasks[tid].assignee_id # tasks[tid].created_by_id
        /\ update_task_outcome(u, tid, [status |-> "done"]) = "OK"
        /\ TaskService_update_task_result(tid, [status |-> "done"], u) = "Row"
        /\ ENABLED (/\ update_task(u, tid, [status |-> "done"])
                    /\ tasks'[tid] = [tasks[tid] EXCEPT !.status = "done"])
        /\ ENABLED (/\ TaskService_update_task(tid, [status |-> "done"], u)
                    /\ tasks'[tid] = [tasks[tid] EXCEPT !.status = "done"])

\* The creator column of every task that is kept by a step is kept.
CreatedByKept ==
    \A tid \in DOMAIN tasks \cap DOMAIN tasks' :
        tasks'[tid].created_by_id = tasks[tid].created_by_id

\* The route stores the requesting actor as the creator of the new task.
C16_Route ==
    \A u \in Users, p \in TaskCreatePayloads :
        (create_task_outcome(u, p) = "OK" /\ next_task_id <= MaxTasks) =>
            /\ ENABLED create_task(u, p)
            /\ ~ENABLED (create_task(u, p) /\ tasks'[next_task_id].created_by_id # u)

\* TaskService.create_task, called for a creator with access to the project and
\* an assignee it accepts, stores a task whose creator is that user.
C16_Service ==
    \A creator_id \in Users, project_id \in DOMAIN projects, p \in TaskServiceCreatePayloads :
        (/\ next_task_id <= MaxTasks
         /\ ProjectService_has_access(project_id, creator_id)
         /\ p.assignee_id # None =>
                (p.assignee_id \in Users /\ ProjectService_has_access(project_id, p.assignee_id)))
        => ENABLED (/\ TaskService_create_task(p, project_id, creator_id)
                    /\ next_task_id \in DOMAIN tasks'
                    /\ tasks'[next_task_id].created_by_id = creator_id)

\* C16: a task created through the route or through TaskService.create_task is
\* stored with created_by_id equal to the requesting actor, and no later
\* operation changes created_by_id.
C16_CreatedByActor == [](C16_Route /\ C16_Service) /\ [][CreatedByKept]_vars

\* The part of C16 the code keeps: the route and the immutability.
C16_RouteAndKept == [](C16_Route) /\ [][CreatedByKept]_vars

\* C17: get, update, delete, add-member and remove-member on a workspace,
\* project or task id that names no row answer NotFound to every actor, whatever
\* the actor's rights and the rest of the request, and change nothing.
C17_NotFoundFirst ==
    \A u \in Users :
        /\ \A wid \in WorkspaceIds \ DOMAIN workspaces :
               /\ read_workspace_outcome(u, wid) = "NotFound"
               /\ update_workspace_outcome(u, wid) = "NotFound"
               /\ delete_workspace_outcome(u, wid) = "NotFound"
               /\ ~ENABLED (delete_workspace(u, wid) /\ ~UNCHANGED vars)
               /\ \A uid \in UserIds :
                      /\ add_workspace_member_outcome(u, wid, uid) = "NotFound"
                      /\ remove_workspace_member_outcome(u, wid, uid) = "NotFound"
                      /\ ~ENABLED (add_workspace_member(u, wid, uid) /\ ~UNCHANGED vars)
                      /\ ~ENABLED (remove_workspace_member(u, wid, uid) /\ ~UNCHANGED vars)
        /\ \A pid \in ProjectIds \ DOMAIN projects :
               /\ read_project_outcome(u, pid) = "NotFound"
               /\ delete_project_outcome(u, pid) = "NotFound"
               /\ ~ENABLED (delete_project(u, pid) /\ ~UNCHANGED vars)
               /\ \A p \in ProjectUpdatePayloads :
                      /\ update_project_outcome(u, pid, p) = "NotFound"
                      /\ ~ENABLED (update_project(u, pid, p) /\ ~UNCHANGED vars)
               /\ \A uid \in UserIds :
                      /\ add_project_member_outcome(u, pid, uid) = "NotFound"
                      /\ remove_project_member_outcome(u, pid, uid) = "NotFound"
                      /\ ~ENABLED (add_project_member(u, pid, uid) /\ ~UNCHANGED vars)
                      /\ ~ENABLED (remove_project_member(u, pid, uid) /\ ~UNCHANGED vars)
        /\ \A tid \in TaskIds \ DOMAIN tasks :
               /\ read_task_outcome(u, tid) = "NotFound"
               /\ delete_task_outcome(u, tid) = "NotFound"
               /\ ~ENABLED (delete_task(u, tid) /\ ~UNCHANGED vars)
               /\ \A p \in TaskUpdatePayloads :
                      /\ update_task_outcome(u, tid, p) = "NotFound"
                      /\ ~ENABLED (update_task(u, tid, p) /\ ~UNCHANGED vars)

\* Project pid exists and user u may not delete it; the id of a deleted project
\* names no row, and the delete u asks of it is answered NotFound.
C17_Witness ==
    \E u \in Users, pid \in DOMAIN projects, gone \in ProjectIds \ DOMAIN projects :
        /\ gone < next_project_id
        /\ delete_project_outcome(u, pid) = "PermissionDenied"
        /\ delete_project_outcome(u, gone) = "NotFound"
        /\ ENABLED (delete_project(u, gone) /\ UNCHANGED vars)

\* User u has no way to read project pid: not through its workspace and not as
\* a member of the project.
NoProjectAccess(u, pid) ==
    /\ has_workspace(pid)
    /\ read_workspace_outcome(u, projects[pid].workspace_id) = "PermissionDenied"
    /\ ~in_project_members(u, pid)

\* User u has no way to read task tid: not through its project and not as its
\* assignee or creator.
NoTaskAccess(u, tid) ==
    /\ has_project(tid)
    /\ NoProjectAccess(u, tasks[tid].project_id)
    /\ tasks[tid].assignee_id # u
    /\ tasks[tid].created_by_id # u

\* The answers user u gets for project id pid.
ProjectAnswers(u, pid) ==
    <<read_project_outcome(u, pid), delete_project_outcome(u, pid),
      [p \in ProjectUpdatePayloads |-> update_project_outcome(u, pid, p)]>>

\* The answers user u gets for task id tid.
TaskAnswers(u, tid) ==
    <<read_task_outcome(u, tid), delete_task_outcome(u, tid),
      [p \in TaskUpdatePayloads |-> update_task_outcome(u, tid, p)]>>

\* A step that creates or removes a project or task the user has no access to
\* leaves the user's answers for that id as they were.
C18_Step ==
    \A u \in Users :
        /\ \A pid \in DOMAIN projects' \ DOMAIN projects :
               (NoProjectAccess(u, pid))' => (ProjectAnswers(u, pid))' = ProjectAnswers(u, pid)
        /\ \A pid \in DOMAIN projects \ DOMAIN projects' :
               NoProjectAccess(u, pid) => (ProjectAnswers(u, pid))' = ProjectAnswers(u, pid)
        /\ \A tid \in DOMAIN tasks' \ DOMAIN tasks :
               (NoTaskAccess(u, tid))' => (TaskAnswers(u, tid))' = TaskAnswers(u, tid)
        /\ \A tid \in DOMAIN tasks \ DOMAIN tasks' :
               NoTaskAccess(u, tid) => (TaskAnswers(u, tid))' = TaskAnswers(u, tid)

\* C18: an actor without read access to a workspace gets the same outcome from
\* get, update and delete on a project or task id whether the id names a row
\* inside that workspace or no row at all.
C18_NoExistenceOracle == [][C18_Step]_vars

\* The query of read_tasks with no parameter.
NoTaskFilter == [project_id |-> None, assignee_id |-> None]

\* C19: before the skip/limit window and after the explicit filters, the list
\* handlers return to an actor exactly the workspaces, projects and tasks whose
\* get-by-id the actor is granted, and to a superuser every row that matches
\* the filters.
C19_ListIsReadable ==
    \A u \in Users :
        /\ read_workspaces_rows(u) =
               {wid \in DOMAIN workspaces : read_workspace_outcome(u, wid) = "OK"}
        /\ is_superuser(u) => read_workspaces_rows(u) = DOMAIN workspaces
        /\ \A workspace_id \in {None} \cup WorkspaceIds :
               /\ read_projects_rows(u, workspace_id) =
                      {pid \in DOMAIN projects :
                           /\ read_projects_filter(pid, workspace_id)
                           /\ read_project_outcome(u, pid) = "OK"}
               /\ is_superuser(u) =>
                      read_projects_rows(u, workspace_id) =
                          {pid \in DOMAIN projects : read_projects_filter(pid, workspace_id)}
        /\ \A q \in TaskFilters :
               /\ read_tasks_rows(u, q) =
                      {tid \in DOMAIN tasks :
                           /\ read_tasks_filter(tid, q)
                           /\ read_task_outcome(u, tid) = "OK"}
               /\ is_superuser(u) =>
                      read_tasks_rows(u, q) = {tid \in DOMAIN tasks : read_tasks_filter(tid, q)}

\* A user who is not a superuser and reaches a task as its creator alone: the
\* task is in the user's list of tasks, its project is not in the user's list
\* of projects, and the filter on another status leaves the task out.
C19_Witness ==
    \E u \in Users \ Superusers, tid \in DOMAIN tasks :
        /\ tasks[tid].created_by_id = u
        /\ tasks[tid].assignee_id # u
        /\ NoProjectAccess(u, tasks[tid].project_id)
        /\ read_tasks_rows(u, NoTaskFilter) = {tid}
        /\ read_projects_rows(u, None) = {}
        /\ read_workspaces_rows(u) = {}
        /\ \E status \in TaskStatus \ {tasks[tid].status} :
               read_tasks_rows(u, [project_id |-> None, assignee_id |-> None,
                                   status |-> status]) = {}
        /\ ENABLED read_tasks(u, NoTaskFilter)

\* WorkspaceService.add_member of a user who is a member already reports
\* success and changes nothing.
C20_Workspace ==
    \A wid \in DOMAIN workspaces, uid \in Users :
        in_workspace_members(uid, wid) =>
            /\ WorkspaceService_add_member_result(wid, uid) = "True"
            /\ ENABLED WorkspaceService_add_member(wid, uid)
            /\ ~ENABLED (WorkspaceService_add_member(wid, uid) /\ ~UNCHANGED vars)

\* ProjectService.add_member of a user who is a member already reports success
\* and changes nothing.
C20_Project ==
    \A pid \in DOMAIN projects, uid \in Users :
        in_project_members(uid, pid) =>
            /\ ProjectService_add_member_result(pid, uid) = "True"
            /\ ENABLED ProjectService_add_member(pid, uid)
            /\ ~ENABLED (ProjectService_add_member(pid, uid) /\ ~UNCHANGED vars)

\* C20: WorkspaceService.add_member and ProjectService.add_member are
\* idempotent: for a user who is a member already they report success and leave
\* the membership relation unchanged.
C20_AddMemberIdempotent == C20_Workspace /\ C20_Project

\* The member set of the workspace or project id in an association table.
MemberSet(table, id) == {uid \in UserIds : <<id, uid>> \in DOMAIN table}

\* The member sets of table after are those of before, but for the set of id,
\* which is members; no pair is stored twice.
MemberSetBecomes(before, after, id, members) ==
    /\ MemberSet(after, id) = members
    /\ \A e \in DOMAIN after : after[e] = 1
    /\ \A e \in DOMAIN before \cup DOMAIN after :
           e[1] # id => (e \in DOMAIN before <=> e \in DOMAIN after)

\* The workspace member handlers, asked by a user they permit about a user
\* that exists.
C21_Workspace ==
    \A u \in Users, wid \in DOMAIN workspaces, uid \in Users :
        add_workspace_member_permitted(u, wid) =>
            LET members == MemberSet(workspace_members, wid)
            IN  /\ add_workspace_member_outcome(u, wid, uid) =
                       (IF uid \in members THEN "Conflict" ELSE "OK")
                /\ remove_workspace_member_outcome(u, wid, uid) =
                       (IF uid \in members THEN "OK" ELSE "Conflict")
                /\ ~ENABLED (/\ add_workspace_member(u, wid, uid)
                             /\ ~(/\ MemberSetBecomes(workspace_members, workspace_members',
                                                       wid, members \cup {uid})
                                  /\ UNCHANGED project_members))
                /\ ~ENABLED (/\ remove_workspace_member(u, wid, uid)
                             /\ ~(/\ MemberSetBecomes(workspace_members, workspace_members',
                                                       wid, members \ {uid})
                                  /\ UNCHANGED project_members))

\* The project member handlers, asked by a user they permit about a user that
\* exists.
C21_Project ==
    \A u \in Users, pid \in DOMAIN projects, uid \in Users :
        (has_workspace(pid) /\ add_project_member_permitted(u, pid)) =>
            LET members == MemberSet(project_members, pid)
            IN  /\ add_project_member_outcome(u, pid, uid) =
                       (IF uid \in members THEN "Conflict" ELSE "OK")
                /\ remove_project_member_outcome(u, pid, uid) =
                       (IF uid \in members THEN "OK" ELSE "Conflict")
                /\ ~ENABLED (/\ add_project_member(u, pid, uid)
                             /\ ~(/\ MemberSetBecomes(project_members, project_members',
                                                       pid, members \cup {uid})
                                  /\ UNCHANGED workspace_members))
                /\ ~ENABLED (/\ remove_project_member(u, pid, uid)
                             /\ ~(/\ MemberSetBecomes(project_members, project_members',
                                                       pid, members \ {uid})
                                  /\ UNCHANGED workspace_members))

\* C21: in the routes, for an actor permitted to manage the entity and a user
\* that exists, add-member of a member and remove-member of a non-member end in
\* Conflict and leave the member set as it was; add-member of a non-member adds
\* exactly that user and remove-member of a member removes exactly that user.
C21_StrictMembership == C21_Workspace /\ C21_Project

\* The owner, who is no superuser, manages a workspace with a member and a
\* non-member: adding the member and removing the non-member are refused,
\* removing the member and adding the non-member are carried out.
C21_Witness ==
    \E u \in Users \ Superusers, wid \in DOMAIN workspaces, m \in Users, n \in Users :
        /\ workspaces[wid].owner_id = u
        /\ m \in MemberSet(workspace_members, wid)
        /\ n \notin MemberSet(workspace_members, wid)
        /\ add_workspace_member_outcome(u, wid, m) = "Conflict"
        /\ remove_workspace_member_outcome(u, wid, n) = "Conflict"
        /\ ENABLED (/\ remove_workspace_member(u, wid, m)
                    /\ MemberSet(workspace_members', wid) = MemberSet(workspace_members, wid) \ {m})
        /\ ENABLED (/\ add_workspace_member(u, wid, n)
                    /\ MemberSet(workspace_members', wid) = MemberSet(workspace_members, wid) \cup {n})

\* The create of connection c returns.
Finishes(c) == requests[c].pc = "add_member" /\ requests'[c].pc = "done"

\* A create that returns with its new row in the store leaves the membership
\* row of the creator in the store too.
C22_Step ==
    \A c \in Connections :
        Finishes(c) =>
            LET id == requests[c].row[1]
                row == requests[c].row
                stored == IF requests[c].handler = "WorkspaceService.create_workspace"
                             THEN id \in DOMAIN workspaces'
                             ELSE id \in DOMAIN projects'
                member == IF requests[c].handler = "WorkspaceService.create_workspace"
                             THEN row \in DOMAIN workspace_members'
                             ELSE row \in DOMAIN project_members'
            IN  stored => member

\* C22: WorkspaceService.create_workspace and ProjectService.create_project are
\* atomic: a create that has finished has stored the new entity together with
\* the membership edge of its creator, or has stored neither and reported
\* failure, whatever other requests do between its two steps.
C22_AtomicCreate == [][C22_Step]_vars

\* C23: TaskService.has_access is ProjectService.has_access of the task's
\* project, which is project membership or WorkspaceService.has_access of the
\* project's workspace, which is ownership or workspace membership; each is
\* false for an id that names no row.  So access to a workspace is access to
\* every project and task below it.
C23_AccessDelegates ==
    \A u \in Users :
        /\ \A wid \in WorkspaceIds :
               WorkspaceService_has_access(wid, u) <=>
                   /\ wid \in DOMAIN workspaces
                   /\ \/ workspaces[wid].owner_id = u
                      \/ u \in MemberSet(workspace_members, wid)
        /\ \A pid \in ProjectIds :
               ProjectService_has_access(pid, u) <=>
                   /\ pid \in DOMAIN projects
                   /\ \/ u \in MemberSet(project_members, pid)
                      \/ WorkspaceService_has_access(projects[pid].workspace_id, u)
        /\ \A tid \in TaskIds :
               TaskService_has_access(tid, u) <=>
                   /\ tid \in DOMAIN tasks
                   /\ ProjectService_has_access(tasks[tid].project_id, u)
        /\ \A wid \in DOMAIN workspaces :
               WorkspaceService_has_access(wid, u) =>
                   /\ \A pid \in workspace_projects(wid) : ProjectService_has_access(pid, u)
                   /\ \A tid \in project_tasks(workspace_projects(wid)) :
                          TaskService_has_access(tid, u)

\* A workspace member who is no member of a project of the workspace and
\* neither assignee nor creator of its task has access to both, while a user
\* outside has access to neither, and nobody has access to a missing project.
C23_Witness ==
    \E u \in Users, v \in Users, tid \in DOMAIN tasks :
        LET pid == tasks[tid].project_id
            wid == projects[pid].workspace_id
        IN  /\ u \in MemberSet(workspace_members, wid)
            /\ workspaces[wid].owner_id \notin {u, v}
            /\ u \notin MemberSet(project_members, pid)
            /\ tasks[tid].assignee_id # u /\ tasks[tid].created_by_id # u
            /\ TaskService_has_access(tid, u)
            /\ ProjectService_has_access(pid, u)
            /\ ~WorkspaceService_has_access(wid, v)
            /\ ~TaskService_has_access(tid, v)
            /\ \E gone \in ProjectIds \ DOMAIN projects : ~ProjectService_has_access(gone, u)
            /\ ENABLED TaskService_delete_task(tid, u)

\* C24: WorkspaceService.get_workspaces_by_user(u) returns, before the
\* skip/limit window, exactly the workspaces that u owns or is a member of, a
\* workspace owned by u also when its member set is empty.
C24_WorkspacesByUser ==
    \A u \in Users :
        WorkspaceService_get_workspaces_by_user_rows(u) =
            {wid \in DOMAIN workspaces :
                 \/ workspaces[wid].owner_id = u
                 \/ u \in MemberSet(workspace_members, wid)}

\* The part of C24 that holds: the workspaces returned are owned by the user or
\* have the user as a member, and every workspace with the user as a member is
\* returned.
C24_MemberWorkspaces ==
    \A u \in Users :
        /\ WorkspaceService_get_workspaces_by_user_rows(u) \subseteq
               {wid \in DOMAIN workspaces :
                    \/ workspaces[wid].owner_id = u
                    \/ u \in MemberSet(workspace_members, wid)}
        /\ \A wid \in DOMAIN workspaces :
               u \in MemberSet(workspace_members, wid) =>
                   wid \in WorkspaceService_get_workspaces_by_user_rows(u)

\* After the step, user uid still reads and updates the tasks uid is assigned
\* to and still reads the projects uid is a member of.
KeepsAccess(uid) ==
    /\ \A tid \in DOMAIN tasks' :
           tasks'[tid].assignee_id = uid =>
               /\ (read_task_outcome(uid, tid))' = "OK"
               /\ (update_task_outcome(uid, tid, [status |-> "done"]))' = "OK"
    /\ \A pid \in DOMAIN projects' :
           <<pid, uid>> \in DOMAIN project_members' =>
               (read_project_outcome(uid, pid))' = "OK"

\* C25: removing a user from the member set of a workspace or of a project
\* changes that member set alone: the other member sets, the projects and every
\* task with its assignee_id and created_by_id are as before.  The user removed
\* still reads and updates the tasks assigned to them and still reads the
\* projects they are a member of.
C25_RemoveChangesOneSet ==
    \A u \in Users, uid \in Users :
        /\ \A wid \in DOMAIN workspaces :
               remove_workspace_member_outcome(u, wid, uid) = "OK" =>
                   ~ENABLED (/\ remove_workspace_member(u, wid, uid)
                             /\ ~(/\ MemberSetBecomes(workspace_members, workspace_members', wid,
                                                      MemberSet(workspace_members, wid) \ {uid})
                                  /\ UNCHANGED <<workspaces, projects, project_members, tasks>>
                                  /\ KeepsAccess(uid)))
        /\ \A pid \in DOMAIN projects :
               remove_project_member_outcome(u, pid, uid) = "OK" =>
                   ~ENABLED (/\ remove_project_member(u, pid, uid)
                             /\ ~(/\ MemberSetBecomes(project_members, project_members', pid,
                                                      MemberSet(project_members, pid) \ {uid})
                                  /\ UNCHANGED <<workspaces, workspace_members, projects, tasks>>
                                  /\ KeepsAccess(uid)))

\* User uid, no superuser and not the owner, is a member of the workspace and of
\* a project in it and the assignee of a task of that project.  The owner takes
\* uid out of the workspace: uid is still a member of the project and reads it,
\* and still reads and updates the task.
C25_Witness ==
    \E uid \in Users \ Superusers, tid \in DOMAIN tasks :
        LET pid == tasks[tid].project_id
            wid == projects[pid].workspace_id
            owner == workspaces[wid].owner_id
        IN  /\ owner # uid
            /\ tasks[tid].assignee_id = uid
            /\ tasks[tid].created_by_id # uid
            /\ uid \in MemberSet(workspace_members, wid)
            /\ uid \in MemberSet(project_members, pid)
            /\ ENABLED (/\ remove_workspace_member(owner, wid, uid)
                        /\ uid \notin MemberSet(workspace_members', wid)
                        /\ uid \in MemberSet(project_members', pid)
                        /\ (read_project_outcome(uid, pid))' = "OK"
                        /\ (read_task_outcome(uid, tid))' = "OK"
                        /\ (update_task_outcome(uid, tid, [status |-> "done"]))' = "OK")

\* C26: for every actor who is no superuser and every task, the service
\* functions TaskService.update_task and TaskService.delete_task accept the
\* actor exactly when the routes update_task and delete_task do.
C26_LayersAgree ==
    \A u \in Users \ Superusers, tid \in DOMAIN tasks :
        /\ update_task_outcome(u, tid, EmptyTable) = "OK"
               <=> TaskService_update_task_result(tid, EmptyTable, u) = "Row"
        /\ delete_task_outcome(u, tid) = "OK"
               <=> TaskService_delete_task_result(tid, u) = "True"

\* C27: a route operation that ends in NotFound, PermissionDenied,
\* InvalidReference or Conflict leaves the whole store as it was before the
\* operation: no step of a refused request changes a variable.
C27_RefusalChangesNothing == [][UNCHANGED vars]_vars

\* One state in which the routes give each of the four refusals: a task create
\* refused for its assignee, a member add refused as redundant, a task update
\* refused for the actor, and a delete of a project that is gone; the store has
\* room for the task that is refused.
C27_Witness ==
    /\ next_task_id <= MaxTasks
    /\ \E u \in Users, p \in TaskCreatePayloads :
           /\ create_task_outcome(u, p) = "InvalidReference"
           /\ ENABLED (create_task(u, p) /\ UNCHANGED vars)
    /\ \E u \in Users, pid \in DOMAIN projects, uid \in Users :
           /\ add_project_member_outcome(u, pid, uid) = "Conflict"
           /\ ENABLED (add_project_member(u, pid, uid) /\ UNCHANGED vars)
    /\ \E u \in Users, p \in ProjectCreatePayloads :
           /\ create_project_outcome(u, p) = "PermissionDenied"
           /\ ENABLED (create_project(u, p) /\ UNCHANGED vars)
    /\ \E u \in Users, pid \in ProjectIds :
           /\ delete_project_outcome(u, pid) = "NotFound"
           /\ ENABLED (delete_project(u, pid) /\ UNCHANGED vars)

\* A workspace kept by a step keeps its owner.
OwnerKept ==
    \A wid \in DOMAIN workspaces \cap DOMAIN workspaces' :
        workspaces'[wid].owner_id = workspaces[wid].owner_id

\* The workspace that create_workspace stores for user u is owned by u.
OwnerIsCreator ==
    \A u \in Users :
        next_workspace_id <= MaxWorkspaces =>
            /\ ENABLED create_workspace(u)
            /\ ~ENABLED (create_workspace(u) /\ workspaces'[next_workspace_id].owner_id # u)

\* The owner of a workspace is one user, who reads the workspace and manages
\* it and its member set.
OwnerManages ==
    \A wid \in DOMAIN workspaces :
        LET owner == workspaces[wid].owner_id
        IN  /\ owner \in Users
            /\ read_workspace_outcome(owner, wid) = "OK"
            /\ update_workspace_outcome(owner, wid) = "OK"
            /\ delete_workspace_outcome(owner, wid) = "OK"
            /\ \A uid \in Users :
                   /\ add_workspace_member_outcome(owner, wid, uid) \in {"OK", "Conflict"}
                   /\ remove_workspace_member_outcome(owner, wid, uid) \in {"OK", "Conflict"}

\* C28: the owner_id of a workspace is the user who created it and no
\* operation changes it, removing the owner from the member set included; the
\* owner reads and manages the workspace in every reachable state.
C28_OwnerFixed == [](OwnerIsCreator /\ OwnerManages) /\ [][OwnerKept]_vars

\* The owner, no superuser, is in the member set of the workspace; a superuser
\* removes the owner from it, and the owner still owns, reads, updates and
\* deletes the workspace.
C28_Witness ==
    \E su \in Superusers, wid \in DOMAIN workspaces :
        LET owner == workspaces[wid].owner_id
        IN  /\ owner \notin Superusers
            /\ owner \in MemberSet(workspace_members, wid)
            /\ ENABLED (/\ remove_workspace_member(su, wid, owner)
                        /\ owner \notin MemberSet(workspace_members', wid)
                        /\ workspaces'[wid].owner_id = owner
                        /\ (read_workspace_outcome(owner, wid))' = "OK"
                        /\ (update_workspace_outcome(owner, wid))' = "OK"
                        /\ (delete_workspace_outcome(owner, wid))' = "OK")
====
